---- MODULE Spec2Model ----
(***************************************************************************)
(* Trip planner: the route-synthesis pipeline of                           *)
(* server/controllers/tripController.js (planTrip, generateRoute,          *)
(* generateRouteWithAI, isWaypointsValid, isStraightLine, snapWaypoints,   *)
(* generateRouteWithOpenRouteService, getWeatherData).                     *)
(* and the route API of server/controllers/routeController.js over the     *)
(* Route collection of server/models/Route.js.                             *)
(*                                                                         *)
(* Numbers.  A latitude or longitude is an integer count of millidegrees   *)
(* (41385 is 41.385 degrees), so the code's thresholds are 90000, 180000   *)
(* and 500 (0.5 degrees).  isStraightLine depends on differences only, and *)
(* every array the model builds stays within a few millidegrees of one     *)
(* base point, which keeps the products inside TLC's integers.             *)
(***************************************************************************)
EXTENDS Integers, Sequences, FiniteSets, TLC

VARIABLES
    \* ---- one planning request (planTrip / generateRoute) ----
    env,                \* process.env: which of the keys are set
    aborted,            \* the client has closed the connection of the request
    tripType,           \* req.body.tripType
    location,           \* req.body.location
    pc,                 \* the await the request is suspended at
    attempt,            \* generateRoute: loop counter (line 73)
    aiAttempt,          \* generateRouteWithAI: loop counter (line 329)
    isRetry,            \* generateRoute: isRetry of the last Proposer call
    content,            \* generateRouteWithAI: what the last LLM call gave (line 463)
    waypointsResponse,  \* generateRoute: result of the last Proposer call
    locations,          \* snapWaypoints: the [lon, lat] pairs sent (line 124)
    data,               \* snapWaypoints: the snap service's answer (line 128)
    coordinates,        \* generateRouteWithOpenRouteService: line 168, 175
    orsError,           \* generateRoute: orsError.message of this attempt
    orsResponse,        \* generateRouteWithOpenRouteService: response or err of
                        \* the last directions request (lines 196-205)
    result,             \* what generateRoute returned or threw
    response,           \* what planTrip answered
    \* ---- the calls made to the external services, in order ----
    aiLog,              \* generateRouteWithAI invocations, and whether line 79 passed
    llmLog,             \* groq.chat.completions.create calls
    snapLog,            \* POST /v2/snap calls
    dirLog,             \* POST /v2/directions calls
    weatherLog,         \* GET /data/2.5/forecast calls
    waits,              \* 1000 ms pauses of generateRoute (lines 95, 111)
    aiWaits,            \* retryDelay pauses of generateRouteWithAI (lines 468, 519, 525)
    \* ---- isWaypointsValid / isStraightLine applied to arbitrary arrays ----
    gBase,              \* the base point the array is built around
    gWaypoints,         \* the array
    gValid,             \* isWaypointsValid(gWaypoints)
    gStraight,          \* isStraightLine(gWaypoints.items)
    \* ---- the parse stages of generateRouteWithAI applied to arbitrary text ----
    pContent,           \* content (line 463), as a sequence of tokens
    pParsed,            \* what lines 465-520 make of it
    \* ---- lines 230-311 applied to arbitrary directions features ----
    rTripType,          \* tripType
    rFeature,           \* response.data.features[0]
    rSplitIdx,          \* splitIdx after line 246
    rRoute,             \* the route object of lines 301-311
    \* ---- generateRoute run by several requests at once ----
    reqPc,              \* per request: the await its generateRoute is suspended at
    reqAttempt,         \* per request: the loop counter of line 73
    reqWaypoints,       \* per request: waypointsResponse of line 77
    reqResponses,       \* per request: what its own calls were answered, in order
    reqResult,          \* per request: what its generateRoute returned or threw
    \* ---- the stored routes (routeController.js, models/Route.js) ----
    routes,             \* the Route collection: the documents by _id
    used,               \* the _id values handed out so far
    reply               \* the last request to the route API and its answer

orchVars == <<env, aborted, tripType, location, pc, attempt, aiAttempt, isRetry, content,
              waypointsResponse, locations, data, coordinates, orsError,
              orsResponse, result, response,
              aiLog, llmLog, snapLog, dirLog, weatherLog, waits, aiWaits>>
geomVars == <<gBase, gWaypoints, gValid, gStraight>>
parseVars == <<pContent, pParsed>>
routeVars == <<rTripType, rFeature, rSplitIdx, rRoute>>
concVars == <<reqPc, reqAttempt, reqWaypoints, reqResponses, reqResult>>
storeVars == <<routes, used, reply>>
pureVars == <<geomVars, parseVars, routeVars, concVars, storeVars>>
vars == <<orchVars, geomVars, parseVars, routeVars, concVars, storeVars>>

----------------------------------------------------------------------------
(* JavaScript values as they come out of JSON.parse.                       *)

\* a JSON number
Num(n) == [type |-> "number", val |-> n]
\* a JSON string holding a number, e.g. "41.385": typeof is 'string'
Str(n) == [type |-> "string", val |-> n]

\* a waypoint object {lat, lng}; a null array entry has isNull = TRUE
Waypoint(lat, lng) == [isNull |-> FALSE, lat |-> lat, lng |-> lng]
NullEntry == [isNull |-> TRUE, lat |-> Num(0), lng |-> Num(0)]
Pt(lat, lng) == Waypoint(Num(lat), Num(lng))

\* the value of routeData.waypoints: an array, a non-array truthy value
\* (type "string"), or undefined
ArrayOf(items) == [type |-> "array", items |-> items]
NotAnArray == [type |-> "string", items |-> << >>]
Undefined == [type |-> "undefined", items |-> << >>]

Abs(x) == IF x < 0 THEN -x ELSE x

----------------------------------------------------------------------------
(* isStraightLine, tripController.js 575-613.                              *)

\* lines 587-588: v = {x: b.lat - a.lat, y: b.lng - a.lng}
Vec(a, b) == [x |-> b.lat.val - a.lat.val, y |-> b.lng.val - a.lng.val]

\* line 594: len === 0, len = sqrt(x^2 + y^2)
ZeroLen(v) == v.x * v.x + v.y * v.y = 0

\* lines 597-606: angle = acos(dot / (len1 * len2)) in degrees, angle > 170.
\* For non-zero vectors the angle exceeds 170 degrees iff the dot product is
\* negative and |cross| / |dot| < tan(10 degrees) = 0.17632698...
AngleOver170(v1, v2) ==
    LET dot == v1.x * v2.x + v1.y * v2.y
        cross == v1.x * v2.y - v1.y * v2.x
    IN  dot < 0 /\ Abs(cross) * 1000000 < 176327 * (-dot)

\* line 581: the interior indices (1-based here), minus the skipped ones
EvaluatedAngles(points) ==
    { i \in 2..(Len(points) - 1) :
        /\ ~ZeroLen(Vec(points[i - 1], points[i]))
        /\ ~ZeroLen(Vec(points[i], points[i + 1])) }

StraightAngles(points) ==
    { i \in EvaluatedAngles(points) :
        AngleOver170(Vec(points[i - 1], points[i]), Vec(points[i], points[i + 1])) }

\* line 587: reading prev.lat of a null entry throws; with 3 or more entries
\* every entry is read as prev, curr or next
ReadsNull(points) == \E i \in 1..Len(points) : points[i].isNull

\* line 612 with a threshold of one half
isStraightLineAtLeastHalf(points) ==
    IF Len(points) < 3 THEN "false"
    ELSE IF ReadsNull(points) THEN "TypeError"
    ELSE LET totalAngles == Cardinality(EvaluatedAngles(points))
             straightAngles == Cardinality(StraightAngles(points))
         IN  IF totalAngles > 0 /\ straightAngles * 10 >= 5 * totalAngles
             THEN "true" ELSE "false"

\* lines 576-612: straightAngles / totalAngles > 0.7.  The result is "true",
\* "false", or "TypeError" when an entry is null.
isStraightLine(points) ==
    IF Len(points) < 3 THEN "false"
    ELSE IF ReadsNull(points) THEN "TypeError"
    ELSE LET totalAngles == Cardinality(EvaluatedAngles(points))
             straightAngles == Cardinality(StraightAngles(points))
         IN  IF totalAngles > 0 /\ straightAngles * 10 > 7 * totalAngles
             THEN "true" ELSE "false"

----------------------------------------------------------------------------
(* isWaypointsValid, tripController.js 535-572.  The result is "true",     *)
(* "false", or "TypeError" when the callback of every() reads wp.lat of a  *)
(* null entry (line 546).                                                  *)

\* the range test with 90 exclusive, as a mutant would have it
isValidExclusive(wp) ==
    /\ wp.lat.type = "number"
    /\ wp.lng.type = "number"
    /\ Abs(wp.lat.val) < 90000
    /\ Abs(wp.lng.val) <= 180000
    /\ ~(Abs(wp.lat.val) < 500 /\ Abs(wp.lng.val) < 500)

\* lines 545-551
isValid(wp) ==
    /\ wp.lat.type = "number"
    /\ wp.lng.type = "number"
    /\ Abs(wp.lat.val) <= 90000
    /\ Abs(wp.lng.val) <= 180000
    /\ ~(Abs(wp.lat.val) < 500 /\ Abs(wp.lng.val) < 500)

\* every() stops at the first entry whose callback returns false or throws
FirstRejected(items) ==
    LET bad == { i \in 1..Len(items) : items[i].isNull \/ ~isValid(items[i]) }
    IN  IF bad = {} THEN 0 ELSE CHOOSE i \in bad : \A j \in bad : i <= j

isWaypointsValid(waypoints) ==
    IF waypoints.type # "array" \/ Len(waypoints.items) < 3 THEN "false"
    ELSE LET items == waypoints.items
             k == FirstRejected(items)
         IN  IF k # 0
             THEN IF items[k].isNull THEN "TypeError" ELSE "false"
             ELSE IF isStraightLine(items) = "true" THEN "false" ELSE "true"

----------------------------------------------------------------------------
(* The arrays isWaypointsValid and isStraightLine are applied to: every    *)
(* array of at most MaxLen entries drawn from a pool around one base       *)
(* point.  The bases sit on the thresholds of lines 548-550.               *)

MaxLen == 5

Bases ==
    { [lat |-> 499, lng |-> 499],          \* around (0.5, 0.5)
      [lat |-> -500, lng |-> -500],        \* around (-0.5, -0.5)
      [lat |-> 89999, lng |-> 179999],     \* around (90, 180)
      [lat |-> -90001, lng |-> -180001] }  \* around (-90, -180)

\* offsets (lat, lng) in millidegrees: a line of three points and a
\* parallel line of two, spaced so that turns of 0, 90, 135, 168.7, 170.5
\* and 180 degrees occur
Offsets == { <<0, 0>>, <<1, 0>>, <<6, 0>>, <<0, 1>>, <<1, 1>> }

\* the points, a point whose lat is a string, and a null entry
Pool(base) ==
    { Pt(base.lat + o[1], base.lng + o[2]) : o \in Offsets }
        \cup { Waypoint(Str(base.lat + 1), Num(base.lng + 1)), NullEntry }

GeomInit ==
    /\ gBase \in Bases
    /\ gWaypoints \in { ArrayOf(<< >>), NotAnArray, Undefined }
    /\ gValid = isWaypointsValid(gWaypoints)
    /\ gStraight = isStraightLine(gWaypoints.items)

\* isWaypointsValid and isStraightLine applied to the array with one more entry
PushWaypoint(wp) ==
    /\ gWaypoints.type = "array"
    /\ Len(gWaypoints.items) < MaxLen
    /\ gWaypoints' = ArrayOf(Append(gWaypoints.items, wp))
    /\ gValid' = isWaypointsValid(gWaypoints')
    /\ gStraight' = isStraightLine(gWaypoints'.items)
    /\ UNCHANGED gBase

GeomNext == \E wp \in Pool(gBase) : PushWaypoint(wp)

----------------------------------------------------------------------------
(* The parse of the LLM's text, generateRouteWithAI lines 463-520.         *)
(* A text is a sequence of tokens: "prose" (words without braces),         *)
(* "fence" (a ``` or ```json marker), "{" and "}" (the braces of the       *)
(* top-level object), "," (a comma), "null" (the literal), and the members *)
(* of an object: "Zigzag" and the other proposals, each "waypoints"        *)
(* followed by an array of two or more {lat, lng} objects, and "Quoted",   *)
(* members among which a string value holds the characters ,} which the    *)
(* replacement of line 503 turns into "Mangled".                           *)

Members ==
    { "Zigzag", "Loop", "Collinear", "Reversal", "TooFew", "OutOfRange",
      "NearZero", "WithNull", "Quoted", "Mangled" }

NoValue == [ok |-> FALSE, value |-> "none"]

\* JSON.parse: the text is one JSON value, null or an object; the value is
\* named by the members of the object, "{}" for the empty object
JSONparse(text) ==
    IF text = << "null" >> THEN [ok |-> TRUE, value |-> "null"]
    ELSE IF text = << "{", "}" >> THEN [ok |-> TRUE, value |-> "{}"]
    ELSE IF Len(text) = 3 /\ text[1] = "{" /\ text[2] \in Members /\ text[3] = "}"
    THEN [ok |-> TRUE, value |-> text[2]]
    ELSE NoValue

\* the members hold braces of their own (the waypoint objects)
HasOpen(token) == token = "{" \/ token \in Members
HasClose(token) == token = "}" \/ token \in Members

\* line 487: content.match(/\{[\s\S]*\}/), from the first { to the last };
\* a match that starts or ends inside the members is a fragment
jsonMatch(text) ==
    LET opens == { i \in 1..Len(text) : HasOpen(text[i]) }
        closes == { j \in 1..Len(text) : HasClose(text[j]) }
    IN  IF opens = {} \/ closes = {} THEN [found |-> FALSE, text |-> << >>]
        ELSE LET i == CHOOSE x \in opens : \A y \in opens : x <= y
                 j == CHOOSE x \in closes : \A y \in closes : x >= y
             IN  IF j < i THEN [found |-> FALSE, text |-> << >>]
                 ELSE IF text[i] = "{" /\ text[j] = "}"
                 THEN [found |-> TRUE, text |-> SubSeq(text, i, j)]
                 ELSE [found |-> TRUE, text |-> << "fragment" >>]

\* lines 500-504: the fence markers go, then each comma right before a }
\* goes, inside string values too
fixedContent(text) ==
    LET unfenced == SelectSeq(text, LAMBDA t : t # "fence")
        keep == { i \in 1..Len(unfenced) :
                    ~(unfenced[i] = "," /\ i < Len(unfenced) /\ unfenced[i + 1] = "}") }
        RECURSIVE Kept(_)
        Kept(i) == IF i = 0 THEN << >>
                   ELSE IF i \in keep
                   THEN Append(Kept(i - 1),
                               IF unfenced[i] = "Quoted" THEN "Mangled" ELSE unfenced[i])
                   ELSE Kept(i - 1)
    IN  Kept(Len(unfenced))

Parsed(stage, value, tried) ==
    [outcome |-> "parsed", stage |-> stage, value |-> value, tried |-> tried]

\* lines 474-511 with the repair of lines 499-508 tried before the regex
ParseContentRepairsFirst(text) ==
    LET direct == JSONparse(text)
        match == jsonMatch(text)
        extracted == IF match.found THEN JSONparse(match.text) ELSE NoValue
        fixed == JSONparse(fixedContent(text))
    IN  IF direct.ok THEN Parsed(1, direct.value, {1})
        ELSE IF fixed.ok THEN Parsed(3, fixed.value, {1, 3})
        ELSE IF extracted.ok THEN Parsed(2, extracted.value, {1, 2, 3})
        ELSE [outcome |-> "unparseable", stage |-> 0, value |-> "none", tried |-> {1, 2, 3}]

\* lines 474-511: the three parse stages; each return ends the function
ParseContent(text) ==
    LET direct == JSONparse(text)
        match == jsonMatch(text)
        extracted == IF match.found THEN JSONparse(match.text) ELSE NoValue
        fixed == JSONparse(fixedContent(text))
    IN  IF direct.ok THEN Parsed(1, direct.value, {1})
        ELSE IF extracted.ok THEN Parsed(2, extracted.value, {1, 2})
        ELSE IF fixed.ok THEN Parsed(3, fixed.value, {1, 2, 3})
        ELSE [outcome |-> "unparseable", stage |-> 0, value |-> "none", tried |-> {1, 2, 3}]

\* lines 463-520: empty content is not parsed at all
ReadContent(text) ==
    IF text = << >>
    THEN [outcome |-> "empty", stage |-> 0, value |-> "none", tried |-> {}]
    ELSE ParseContent(text)

\* the longest text
MaxTokens == 5

Tokens == { "prose", "fence", "{", "}", ",", "null", "Zigzag", "Quoted" }

ParseInit ==
    /\ pContent = << >>
    /\ pParsed = ReadContent(<< >>)

PushToken(t) ==
    /\ Len(pContent) < MaxTokens
    /\ pContent' = Append(pContent, t)
    /\ pParsed' = ReadContent(pContent')

ParseNext == \E t \in Tokens : PushToken(t)

----------------------------------------------------------------------------
(* What the external services can answer.                                  *)

\* a waypoint near Barcelona (41.385 N, 2.173 E), offsets in millidegrees
Here(a, b) == Pt(41385 + a, 2173 + b)

Zigzag == << Here(0, 0), Here(0, 1), Here(1, 1) >>
Loop == << Here(0, 0), Here(1, 0), Here(1, 1), Here(0, 0) >>
Collinear == << Here(0, 0), Here(1, 0), Here(2, 0) >>
Reversal == << Here(0, 0), Here(1, 0), Here(0, 0) >>
TooFew == << Here(0, 0), Here(0, 1) >>
OutOfRange == << Here(0, 0), Pt(91000, 2173), Here(1, 1) >>
NearZero == << Pt(0, 0), Here(0, 1), Here(1, 1) >>
WithNull == << Here(0, 0), NullEntry, Here(1, 1) >>

\* the value JSON.parse gives for the LLM's text: null, or an object
NullResponse == [isNull |-> TRUE, waypoints |-> Undefined]
RouteData(w) == [isNull |-> FALSE, waypoints |-> w]

Responses ==
    { NullResponse, RouteData(Undefined) }
        \cup { RouteData(ArrayOf(w)) :
                 w \in { Zigzag, Loop, Collinear, Reversal, TooFew,
                         OutOfRange, NearZero, WithNull } }

\* the value JSON.parse gives, by the name the parse model gives it
ValueOf(name) ==
    CASE name = "null" -> NullResponse
      [] name = "{}" -> RouteData(Undefined)
      [] name = "Zigzag" -> RouteData(ArrayOf(Zigzag))
      [] name = "Loop" -> RouteData(ArrayOf(Loop))
      [] name = "Collinear" -> RouteData(ArrayOf(Collinear))
      [] name = "Reversal" -> RouteData(ArrayOf(Reversal))
      [] name = "TooFew" -> RouteData(ArrayOf(TooFew))
      [] name = "OutOfRange" -> RouteData(ArrayOf(OutOfRange))
      [] name = "NearZero" -> RouteData(ArrayOf(NearZero))
      [] name = "WithNull" -> RouteData(ArrayOf(WithNull))
      [] OTHER -> RouteData(ArrayOf(Zigzag))

\* the texts the LLM answers with: nothing, prose, JSON null, an empty
\* object, each proposal as plain JSON, a proposal after a line of prose
\* and a fenced proposal with a trailing comma
Contents ==
    { << >>, << "prose" >>, << "null" >>, << "{", "}" >> }
        \cup { << "{", m, "}" >> :
                 m \in { "Zigzag", "Loop", "Collinear", "Reversal", "TooFew",
                         "OutOfRange", "NearZero", "WithNull" } }
        \cup { << "prose", "{", "Zigzag", "}" >>,
               << "fence", "{", "TooFew", ",", "}" >> }

\* no LLM call has returned yet
NoContent == [kind |-> "none", text |-> << >>]

\* one groq.chat.completions.create call: it throws, or answers with a text
LLMOutcomes ==
    { [kind |-> "throw", text |-> << >>] }
        \cup { [kind |-> "text", text |-> t] : t \in Contents }

\* one entry of data.locations of the snap service: null, or {location}
NullItem == [isNull |-> TRUE, location |-> << 0, 0 >>]
Item(loc) == [isNull |-> FALSE, location |-> loc]

\* the places the service may snap a location to: itself, or (for the last
\* location of the request) a point one millidegree east
SnapTargets(locs, i) ==
    LET loc == locs[i]
    IN  IF i = Len(locs)
        THEN { Item(loc), Item(<< loc[1] + 1, loc[2] >>) }
        ELSE { Item(loc) }

\* the full answers, and the answers with null for exactly one location
ItemLists(locs) ==
    LET n == Len(locs)
    IN  { [i \in 1..n |-> IF i = n THEN last ELSE Item(locs[i])] :
            last \in SnapTargets(locs, n) }
        \cup { [i \in 1..n |-> IF i = k THEN NullItem ELSE Item(locs[i])] : k \in 1..n }

\* process.env as the controller reads it at lines 133, 200, 215 and 797
Envs == [OPENROUTESERVICE_API_KEY : BOOLEAN, WEATHER_API_KEY : BOOLEAN]
AllKeysSet == [OPENROUTESERVICE_API_KEY |-> TRUE, WEATHER_API_KEY |-> TRUE]

\* the answers to POST /v2/snap: an error (transport, status, timeout), a
\* body without locations, a body with one entry per location (null where
\* the service found nothing within the radius), and bodies with one entry
\* fewer or one more
SnapAnswers(locs) ==
    { [kind |-> "error", locations |-> << >>], [kind |-> "ok", locations |-> << >>] }
        \cup { [kind |-> "ok", locations |-> s] : s \in ItemLists(locs) }
        \cup { [kind |-> "ok",
                locations |-> [i \in 1..(Len(locs) - 1) |-> Item(locs[i])]],
               [kind |-> "ok",
                locations |-> [i \in 1..(Len(locs) + 1) |->
                                 Item(locs[IF i <= Len(locs) THEN i ELSE 1])]] }

\* the snap service refuses a request without an Authorization header
\* (line 133 sends undefined when the key is not set)
SnapAnswersWith(keySet, locs) ==
    IF keySet THEN SnapAnswers(locs)
    ELSE { [kind |-> "error", locations |-> << >>] }

\* one GeoJSON feature of the directions answer
Feature(coords) ==
    [geometry |-> coords,
     summary |-> [distance |-> 8000, duration |-> 10800],
     ascent |-> 300, descent |-> 250]

\* no directions request has been answered in this synthesis
NoAnswer ==
    [kind |-> "none", status |-> 0, message |-> "", body |-> "none", features |-> << >>]

\* the ways POST /v2/directions fails: a status with the message of
\* err.response.data.error.message, or no response at all (status 0)
DirectionsErrors ==
    { [kind |-> "error", status |-> e[1], message |-> e[2], body |-> "none",
       features |-> << >>] :
        e \in { << 400, "Unknown parameter: options" >>,
                << 400, "Unknown parameter: avoid_features" >>,
                << 400, "Unknown parameter: foo" >>,
                << 500, "Unknown parameter: options" >>,
                << 0, "" >> } }

\* the answers to POST /v2/directions: an error, a body without features,
\* a body with an empty list of features, a body with a feature whose path
\* visits the requested coordinates or holds one vertex
DirectionsAnswers(coords) ==
    DirectionsErrors
        \cup { [kind |-> "ok", status |-> 200, message |-> "", body |-> b,
                features |-> << >>] : b \in { "noFeatures", "features" } }
        \cup { [kind |-> "ok", status |-> 200, message |-> "", body |-> "features",
                features |-> << Feature(g) >>] :
                 g \in { coords, SubSeq(coords, 1, 1) } }

\* the answers to GET /data/2.5/forecast, as getWeatherData sees them
WeatherAnswers == { "error", "noList", "list" }

\* req.body.location: undefined, a string that may be JSON, or an object
Locations ==
    { [kind |-> "undefined", parses |-> FALSE, lat |-> Num(0), lng |-> Num(0)],
      [kind |-> "string", parses |-> FALSE, lat |-> Num(0), lng |-> Num(0)],
      [kind |-> "string", parses |-> TRUE, lat |-> Num(41385), lng |-> Num(2173)],
      [kind |-> "object", parses |-> TRUE, lat |-> Num(41385), lng |-> Num(2173)],
      [kind |-> "object", parses |-> TRUE, lat |-> Num(0), lng |-> Num(2173)],
      [kind |-> "object", parses |-> TRUE, lat |-> Str(41385),
       lng |-> [type |-> "undefined", val |-> 0]] }

----------------------------------------------------------------------------
(* haversineMetersLonLat, tripController.js 59-69.  Near the base point    *)
(* one millidegree of latitude is 111 m and one of longitude 83 m          *)
(* (111.2 * cos 41.4); over the few millidegrees the model spans the       *)
(* great-circle distance is the planar one, here in whole metres.  For    *)
(* points more than 40 km apart, far beyond every threshold of the code,  *)
(* the longer leg stands for the distance.                                 *)

\* the whole metres of the hypotenuse over the legs dx and dy
Hypotenuse(dx, dy, longer) ==
    IF dx = 0 THEN dy ELSE IF dy = 0 THEN dx
    ELSE IF dx + dy > 40000 THEN longer
    ELSE CHOOSE r \in longer..(dx + dy) :
            r * r <= dx * dx + dy * dy /\ (r + 1) * (r + 1) > dx * dx + dy * dy

Legs(dx, dy) == Hypotenuse(dx, dy, IF dx >= dy THEN dx ELSE dy)

haversineMetersLonLat(a, b) == Legs(83 * Abs(b[1] - a[1]), 111 * Abs(b[2] - a[2]))

----------------------------------------------------------------------------
(* snapWaypoints, tripController.js 122-156.                               *)

\* lines 123 and 181 with one profile for every trip
ProfileAlwaysOnFoot(tt) == "foot-hiking"

\* line 123 (and 181)
Profile(tt) == IF tt = "cycling" THEN "cycling-regular" ELSE "foot-hiking"
\* line 125
Radius(tt) == IF tt = "cycling" THEN 120 ELSE 200

\* line 124
LocationsOf(waypoints) ==
    [i \in 1..Len(waypoints) |-> << waypoints[i].lng.val, waypoints[i].lat.val >>]

\* lines 141-147 with the null entries dropped instead of failing the batch
snapWaypointsDropNulls(locs, d) ==
    IF d.kind # "ok" THEN [ok |-> FALSE, snapped |-> << >>]
    ELSE LET keep == SelectSeq(d.locations, LAMBDA item : ~item.isNull)
         IN  [ok |-> TRUE, snapped |-> [i \in 1..Len(keep) |-> keep[i].location]]

\* lines 148-155 falling back to the locations as sent
snapWaypointsKeepsOriginal(locs, d) ==
    IF /\ d.kind = "ok"
       /\ Len(d.locations) = Len(locs)
       /\ \A i \in 1..Len(d.locations) : ~d.locations[i].isNull
    THEN [ok |-> TRUE, snapped |-> [i \in 1..Len(locs) |-> d.locations[i].location]]
    ELSE [ok |-> TRUE, snapped |-> locs]

\* lines 127-155: the snapped [lon, lat] list, or the throw of 'Snap failed'
snapWaypoints(locs, d) ==
    IF d.kind # "ok" THEN [ok |-> FALSE, snapped |-> << >>]
    ELSE LET snapped == d.locations
         IN  IF Len(snapped) # Len(locs) \/ \E i \in 1..Len(snapped) : snapped[i].isNull
             THEN [ok |-> FALSE, snapped |-> << >>]
             ELSE [ok |-> TRUE,
                   snapped |-> [i \in 1..Len(snapped) |-> snapped[i].location]]

----------------------------------------------------------------------------
(* generateRouteWithOpenRouteService, tripController.js 163-321.           *)

\* lines 170-176 with the threshold of line 175 at 1000
CloseLoopAtOneKilometre(snapped, tt) ==
    IF /\ tt = "cycling"
       /\ Len(snapped) > 1
       /\ haversineMetersLonLat(snapped[1], snapped[Len(snapped)]) > 1000
    THEN Append(snapped, snapped[1])
    ELSE snapped

\* lines 170-176 without the test of the trip type of line 171
CloseLoopAnyTripType(snapped, tt) ==
    IF /\ Len(snapped) > 1
       /\ haversineMetersLonLat(snapped[1], snapped[Len(snapped)]) > 100
    THEN Append(snapped, snapped[1])
    ELSE snapped

\* lines 170-176
CloseLoop(snapped, tt) ==
    IF /\ tt = "cycling"
       /\ Len(snapped) > 1
       /\ haversineMetersLonLat(snapped[1], snapped[Len(snapped)]) > 100
    THEN Append(snapped, snapped[1])
    ELSE snapped

----------------------------------------------------------------------------
(* The numbers of lines 257-311.  A JavaScript number is the fraction n/d  *)
(* in lowest terms, so division is exact and rounding is left out; NaN and *)
(* undefined are values of their own, and every operation on one of them   *)
(* gives NaN, as in the language.                                          *)

RECURSIVE GCD(_, _)
GCD(a, b) == IF b = 0 THEN a ELSE GCD(b, a % b)

Q(n, d) ==
    LET g == GCD(Abs(n), d)
    IN  [kind |-> "number", n |-> n \div g, d |-> d \div g]
NaN == [kind |-> "NaN", n |-> 0, d |-> 1]
\* the value of reading past the end of an array
undefinedNumber == [kind |-> "undefined", n |-> 0, d |-> 1]

IsNumber(x) == x.kind = "number"
Both(x, y) == IsNumber(x) /\ IsNumber(y)
\* x - y
Minus(x, y) == IF Both(x, y) THEN Q(x.n * y.d - y.n * x.d, x.d * y.d) ELSE NaN
\* x * y
Times(x, y) == IF Both(x, y) THEN Q(x.n * y.n, x.d * y.d) ELSE NaN
\* x / y for y > 0
Over(x, y) == IF Both(x, y) THEN Q(x.n * y.d, x.d * y.n) ELSE NaN
\* Math.max(x, y), Math.min(x, y)
MathMax(x, y) == IF Both(x, y) THEN (IF x.n * y.d >= y.n * x.d THEN x ELSE y) ELSE NaN
MathMin(x, y) == IF Both(x, y) THEN (IF x.n * y.d <= y.n * x.d THEN x ELSE y) ELSE NaN

\* lines 238-241: cum[i - 1] of the code is CumAt(coords, i)
RECURSIVE CumAt(_, _)
CumAt(coords, i) ==
    IF i <= 1 THEN 0
    ELSE CumAt(coords, i - 1) + haversineMetersLonLat(coords[i - 1], coords[i])

\* x || y on numbers
Or(x, y) == IF x # 0 THEN x ELSE y

\* line 242: cum[cum.length - 1] || (properties.summary?.distance || 0)
totalGeomMeters(coords, summaryDistance) ==
    Or(CumAt(coords, Len(coords)), summaryDistance)

\* line 238-241: cum has one entry per vertex, and the entry 0 when there is
\* no vertex
cumLength(coords) == IF Len(coords) = 0 THEN 1 ELSE Len(coords)

\* line 245: the 0-based indices v => v >= totalGeomMeters / 2 holds at
HalfWay(coords, total) ==
    { i \in 0..(cumLength(coords) - 1) : 2 * CumAt(coords, i + 1) >= total }

\* line 245: cum.findIndex(...), the least of the indices or -1
findIndex(hits) ==
    IF hits = {} THEN -1 ELSE CHOOSE i \in hits : \A j \in hits : i <= j

\* line 245: Math.max(1, index)
AtLeastOne(index) == IF index > 1 THEN index ELSE 1

\* line 246
OrMidpoint(splitIdx, coords) ==
    IF splitIdx = -1 THEN Len(coords) \div 2 ELSE splitIdx

\* lines 245-246, 0-based as in the code.  Math.max(1, -1) is 1, so the test
\* of line 246 never succeeds.
SplitIdx(coords, summaryDistance) ==
    OrMidpoint(
        AtLeastOne(findIndex(HalfWay(coords, totalGeomMeters(coords, summaryDistance)))),
        coords)

\* lines 249-255 with the days of a cycling path exchanged
PointsSecondDayFirst(coords, tt, splitIdx) ==
    [i \in 1..Len(coords) |->
        [lat |-> coords[i][2], lng |-> coords[i][1],
         day |-> IF tt = "cycling" THEN (IF i - 1 <= splitIdx THEN 2 ELSE 1) ELSE 1,
         order |-> i - 1]]

\* lines 249-255 with the split vertex given to day 2 (i < splitIdx)
PointsSplitVertexOnDayTwo(coords, tt, splitIdx) ==
    [i \in 1..Len(coords) |->
        [lat |-> coords[i][2], lng |-> coords[i][1],
         day |-> IF tt = "cycling" THEN (IF i - 1 < splitIdx THEN 1 ELSE 2) ELSE 1,
         order |-> i - 1]]

\* lines 249-255
Points(coords, tt, splitIdx) ==
    [i \in 1..Len(coords) |->
        [lat |-> coords[i][2], lng |-> coords[i][1],
         day |-> IF tt = "cycling" THEN (IF i - 1 <= splitIdx THEN 1 ELSE 2) ELSE 1,
         order |-> i - 1]]

\* line 258: properties.summary?.distance || totalGeomMeters
TotalMeters(feature) ==
    Or(feature.summary.distance,
       totalGeomMeters(feature.geometry, feature.summary.distance))

\* line 260: cum[splitIdx] is undefined past the end of cum
Day1Meters(coords, tt, splitIdx, totalMeters) ==
    IF tt = "cycling"
    THEN (IF splitIdx < cumLength(coords)
          THEN Q(CumAt(coords, splitIdx + 1), 1)
          ELSE undefinedNumber)
    ELSE Q(totalMeters, 1)

\* line 263
Day1Frac(day1Meters, totalMeters) ==
    MathMax(Q(0, 1),
            MathMin(Q(1, 1), Over(day1Meters, MathMax(totalMeters, Q(1, 1)))))

\* lines 258-264
Shares(feature, tt, totalMeters, day1Meters, day1Frac) ==
    [totalMeters |-> totalMeters,
     totalSec |-> Q(feature.summary.duration, 1),
     ascent |-> Q(feature.ascent, 1),
     descent |-> Q(feature.descent, 1),
     day1Meters |-> day1Meters,
     day2Meters |-> IF tt = "cycling" THEN Minus(totalMeters, day1Meters) ELSE Q(0, 1),
     day1Frac |-> day1Frac,
     day2Frac |-> Minus(Q(1, 1), day1Frac)]

SharesOf(feature, tt, totalMeters, day1Meters) ==
    Shares(feature, tt, totalMeters, day1Meters, Day1Frac(day1Meters, totalMeters))

MeasuresWith(feature, tt, splitIdx, totalMeters) ==
    SharesOf(feature, tt, Q(totalMeters, 1),
             Day1Meters(feature.geometry, tt, splitIdx, totalMeters))

\* lines 258-264: the lengths and the shares of the days
Measures(feature, tt, splitIdx) ==
    MeasuresWith(feature, tt, splitIdx, TotalMeters(feature))

\* lines 267-298: one entry per day
DailyRoutes(m, points, tt, day2Points) ==
    IF tt = "cycling"
    THEN << [day |-> 1,
             distance |-> Over(m.day1Meters, Q(1000, 1)),
             duration |-> Over(Times(m.totalSec, m.day1Frac), Q(3600, 1)),
             elevation |-> [gain |-> Times(m.ascent, m.day1Frac),
                            loss |-> Times(m.descent, m.day1Frac)],
             points |-> SelectSeq(points, LAMBDA p : p.day = 1)],
            [day |-> 2,
             distance |-> Over(m.day2Meters, Q(1000, 1)),
             duration |-> Over(Times(m.totalSec, m.day2Frac), Q(3600, 1)),
             elevation |-> [gain |-> Times(m.ascent, m.day2Frac),
                            loss |-> Times(m.descent, m.day2Frac)],
             points |-> day2Points] >>
    ELSE << [day |-> 1,
             distance |-> Over(m.totalMeters, Q(1000, 1)),
             duration |-> Over(m.totalSec, Q(3600, 1)),
             elevation |-> [gain |-> m.ascent, loss |-> m.descent],
             points |-> points] >>

\* lines 301-311 with the duration in minutes (totalSec / 60)
RouteObjectInMinutes(m, coords, points, dailyRoutes) ==
    [geometry |-> coords,
     points |-> points,
     dailyRoutes |-> dailyRoutes,
     totalDistance |-> Over(m.totalMeters, Q(1000, 1)),
     totalDuration |-> Over(m.totalSec, Q(60, 1)),
     totalElevation |-> [gain |-> m.ascent, loss |-> m.descent]]

\* lines 301-311
RouteObject(m, coords, points, dailyRoutes) ==
    [geometry |-> coords,
     points |-> points,
     dailyRoutes |-> dailyRoutes,
     totalDistance |-> Over(m.totalMeters, Q(1000, 1)),
     totalDuration |-> Over(m.totalSec, Q(3600, 1)),
     totalElevation |-> [gain |-> m.ascent, loss |-> m.descent]]

\* lines 266-311 with day 2 starting at the split vertex (p.order >= splitIdx
\* in the filter of line 287)
RouteOfSharesSplitVertex(coords, tt, splitIdx, m, points) ==
    RouteObject(m, coords, points,
                DailyRoutes(m, points, tt,
                            SelectSeq(points, LAMBDA p : p.order >= splitIdx)))

\* lines 266-311
RouteOf(coords, tt, splitIdx, m, points) ==
    RouteObject(m, coords, points,
                DailyRoutes(m, points, tt, SelectSeq(points, LAMBDA p : p.day = 2)))

\* lines 248-311
RouteSplitAt(feature, tt, splitIdx) ==
    RouteOf(feature.geometry, tt, splitIdx,
            Measures(feature, tt, splitIdx),
            Points(feature.geometry, tt, splitIdx))

\* lines 230-311: geometry, points, one entry per day and the totals
\* (kilometres, hours, metres of climb)
AssembleRoute(feature, tt) ==
    RouteSplitAt(feature, tt, SplitIdx(feature.geometry, feature.summary.distance))

NoRoute ==
    [geometry |-> << >>, points |-> << >>, dailyRoutes |-> << >>,
     totalDistance |-> Q(0, 1), totalDuration |-> Q(0, 1),
     totalElevation |-> [gain |-> Q(0, 1), loss |-> Q(0, 1)]]

----------------------------------------------------------------------------
(* planTrip and generateRoute, tripController.js 12-117.  A request runs   *)
(* from one await to the next in one step: pc names the await it is        *)
(* suspended at, and a step is the arrival of what it waits for together   *)
(* with the synchronous code up to the next await.                         *)

\* line 72
maxRetries == 3
\* line 326
maxRetriesAI == 3

NoData == [kind |-> "none", locations |-> << >>]
NoResult == [kind |-> "none", route |-> NoRoute, message |-> << >>, attempt |-> 0]
NoResponse == [status |-> 0, success |-> FALSE, route |-> NoRoute, weather |-> "none"]

\* line 30: !Number(v)
NotANumber(v) == v.type = "undefined" \/ v.val = 0

\* lines 329-461: one pass of the loop of generateRouteWithAI up to the
\* await of groq.chat.completions.create; lines 333-448 choose the prompt
CallLLM(att, aiAtt, retry) ==
    /\ aiAttempt' = aiAtt
    /\ content' = NoContent
    /\ llmLog' = Append(llmLog, [attempt |-> att, aiAttempt |-> aiAtt, isRetry |-> retry,
                                 prompt |-> IF retry THEN "retry" ELSE "standard"])
    /\ pc' = "awaitLLM"

\* lines 73-77 with the retry hint given only after a rejected proposal
CallProposerHintsAfterRejection(att) ==
    LET retry == att > 1 /\ aiLog[Len(aiLog)].passes # "true"
    IN  /\ attempt' = att
        /\ waypointsResponse' = NullResponse
        /\ isRetry' = retry
        /\ aiLog' = Append(aiLog, [attempt |-> att, isRetry |-> retry,
                                   passes |-> "pending"])
        /\ CallLLM(att, 1, retry)

\* lines 73-77: the head of one iteration of generateRoute; waypointsResponse
\* is a fresh binding of the iteration
CallProposer(att) ==
    /\ attempt' = att
    /\ waypointsResponse' = NullResponse
    /\ isRetry' = (att > 1)
    /\ aiLog' = Append(aiLog, [attempt |-> att, isRetry |-> (att > 1),
                               passes |-> "pending"])
    /\ CallLLM(att, 1, att > 1)

\* generateRoute rejects; planTrip lines 45-48 answer 500
Throw(message) ==
    /\ result' = [kind |-> "error", route |-> NoRoute, message |-> message,
                  attempt |-> attempt]
    /\ response' = [status |-> 500, success |-> FALSE, route |-> NoRoute,
                    weather |-> "none"]
    /\ pc' = "responded"

\* lines 104-116: the proposal was null, had no waypoints or was not valid
ProposalRejected ==
    IF attempt < maxRetries
    THEN /\ waits' = waits + 1
         /\ pc' = "delay"
         /\ UNCHANGED << attempt, result, response >>
    ELSE /\ attempt' = attempt + 1
         /\ Throw(<< "AI failed to generate realistic waypoints after multiple attempts." >>)
         /\ UNCHANGED waits

\* lines 92-100 without the test of line 94
SynthesisFailedRetriesAgain(cause) ==
    /\ orsError' = << "Failed to generate route with OpenRouteService" >> \o cause
    /\ coordinates' = << >>
    /\ waits' = waits + 1
    /\ pc' = "delay"
    /\ UNCHANGED << result, response >>

\* lines 92-100 with line 98 throwing a fixed message
SynthesisFailedDropsCause(cause) ==
    /\ orsError' = << "Failed to generate route with OpenRouteService" >> \o cause
    /\ coordinates' = << >>
    /\ IF attempt < maxRetries
       THEN /\ waits' = waits + 1
            /\ pc' = "delay"
            /\ UNCHANGED << result, response >>
       ELSE /\ Throw(<< "Failed to generate route" >>)
            /\ UNCHANGED waits

\* lines 313-320 and 92-100: generateRouteWithOpenRouteService throws
SynthesisFailed(cause) ==
    /\ orsError' = << "Failed to generate route with OpenRouteService" >> \o cause
    /\ coordinates' = << >>
    /\ IF attempt < maxRetries
       THEN /\ waits' = waits + 1
            /\ pc' = "delay"
            /\ UNCHANGED << result, response >>
       ELSE /\ Throw(<< "Failed to generate route" >> \o orsError')
            /\ UNCHANGED waits

\* lines 89 and 163-139: snapWaypoints posts the locations
CallSnap(waypoints) ==
    /\ locations' = LocationsOf(waypoints)
    /\ snapLog' = Append(snapLog, [attempt |-> attempt, profile |-> Profile(tripType),
                                   radius |-> Radius(tripType)])
    /\ pc' = "awaitSnap"

\* line 79 with the validity test left out
PassesUnchecked(routeData) ==
    IF routeData.isNull \/ routeData.waypoints.type # "array" THEN "false"
    ELSE IF \E i \in 1..Len(routeData.waypoints.items) : routeData.waypoints.items[i].isNull
         THEN "TypeError" ELSE "true"

\* line 79
Passes(routeData) ==
    IF routeData.isNull \/ routeData.waypoints.type = "undefined" THEN "false"
    ELSE isWaypointsValid(routeData.waypoints)

\* lines 77-113: generateRouteWithAI returned routeData
ProposerReturns(routeData) ==
    /\ waypointsResponse' = routeData
    /\ aiLog' = [aiLog EXCEPT ![Len(aiLog)].passes = Passes(routeData)]
    /\ LET passes == Passes(routeData)
       IN  IF passes = "true"
           THEN /\ CallSnap(routeData.waypoints.items)
                /\ UNCHANGED << attempt, result, response, waits >>
           ELSE IF passes = "TypeError"
           THEN /\ Throw(<< "TypeError: Cannot read properties of null" >>)
                /\ UNCHANGED << attempt, locations, snapLog, waits >>
           ELSE /\ ProposalRejected
                /\ UNCHANGED << locations, snapLog >>

\* lines 12-38 without the test of line 30
planTripUncheckedLatLng ==
    /\ pc = "request"
    /\ IF location.kind = "undefined" \/ ~location.parses
       THEN /\ response' = [status |-> 400, success |-> FALSE, route |-> NoRoute,
                            weather |-> "none"]
            /\ pc' = "responded"
            /\ UNCHANGED << attempt, aiAttempt, isRetry, content,
                            waypointsResponse, aiLog, llmLog >>
       ELSE /\ CallProposer(1)
            /\ UNCHANGED response
    /\ location' = IF location.kind = "string" /\ location.parses
                   THEN [location EXCEPT !.kind = "object"]
                   ELSE location
    /\ UNCHANGED << tripType, locations, data,
                    coordinates, orsError, result, snapLog, dirLog, weatherLog,
                    waits, aiWaits, orsResponse,
                    env, aborted, pureVars >>

\* lines 12-38; line 24 rebinds location to the parsed object
planTrip ==
    /\ pc = "request"
    /\ IF \/ location.kind = "undefined"
          \/ ~location.parses
          \/ NotANumber(location.lat)
          \/ NotANumber(location.lng)
       THEN /\ response' = [status |-> 400, success |-> FALSE, route |-> NoRoute,
                            weather |-> "none"]
            /\ pc' = "responded"
            /\ UNCHANGED << attempt, aiAttempt, isRetry, content,
                            waypointsResponse, aiLog, llmLog >>
       ELSE /\ CallProposer(1)
            /\ UNCHANGED response
    /\ location' = IF location.kind = "string" /\ location.parses
                   THEN [location EXCEPT !.kind = "object"]
                   ELSE location
    /\ UNCHANGED << tripType, locations, data,
                    coordinates, orsError, result, snapLog, dirLog, weatherLog,
                    waits, aiWaits, orsResponse,
                    env, aborted, pureVars >>

\* lines 463-531 with empty content giving null at once (line 471 without
\* the test of line 467)
LLMRespondsGivesUpOnEmpty(o) ==
    /\ pc = "awaitLLM"
    /\ content' = o
    /\ LET read == IF o.kind = "throw"
                   THEN [outcome |-> "throw", stage |-> 0, value |-> "none", tried |-> {}]
                   ELSE ReadContent(o.text)
       IN  IF read.outcome \notin { "parsed", "empty" } /\ aiAttempt < maxRetriesAI
           THEN /\ aiWaits' = aiWaits + 1
                /\ pc' = "aiDelay"
                /\ UNCHANGED << attempt, waypointsResponse, locations, result,
                                response, aiLog, snapLog, waits >>
           ELSE /\ ProposerReturns(IF read.outcome = "parsed"
                                   THEN ValueOf(read.value) ELSE NullResponse)
                /\ UNCHANGED aiWaits
    /\ UNCHANGED << tripType, location, aiAttempt, isRetry, data, coordinates,
                    orsError, llmLog, dirLog, weatherLog, orsResponse,
                    env, aborted, pureVars >>

\* lines 463-531 with a parsed answer that has no waypoints array taken
\* for a failed generation
LLMRespondsRetriesOnShape(o) ==
    /\ pc = "awaitLLM"
    /\ content' = o
    /\ LET read == IF o.kind = "throw"
                   THEN [outcome |-> "throw", stage |-> 0, value |-> "none", tried |-> {}]
                   ELSE ReadContent(o.text)
           failed == \/ read.outcome # "parsed"
                     \/ ValueOf(read.value).waypoints.type # "array"
       IN  IF failed /\ aiAttempt < maxRetriesAI
           THEN /\ aiWaits' = aiWaits + 1
                /\ pc' = "aiDelay"
                /\ UNCHANGED << attempt, waypointsResponse, locations, result,
                                response, aiLog, snapLog, waits >>
           ELSE /\ ProposerReturns(IF read.outcome = "parsed"
                                   THEN ValueOf(read.value) ELSE NullResponse)
                /\ UNCHANGED aiWaits
    /\ UNCHANGED << tripType, location, aiAttempt, isRetry, data, coordinates,
                    orsError, llmLog, dirLog, weatherLog, orsResponse,
                    env, aborted, pureVars >>

\* lines 463-531: the LLM call of pass aiAttempt ends with outcome o; a
\* text that parses is returned at once, anything else waits retryDelay and
\* goes round while passes remain, and gives null after the last pass
LLMResponds(o) ==
    /\ pc = "awaitLLM"
    /\ content' = o
    /\ LET read == IF o.kind = "throw"
                   THEN [outcome |-> "throw", stage |-> 0, value |-> "none", tried |-> {}]
                   ELSE ReadContent(o.text)
       IN  IF read.outcome # "parsed" /\ aiAttempt < maxRetriesAI
           THEN /\ aiWaits' = aiWaits + 1
                /\ pc' = "aiDelay"
                /\ UNCHANGED << attempt, waypointsResponse, locations, result,
                                response, aiLog, snapLog, waits >>
           ELSE /\ ProposerReturns(IF read.outcome = "parsed"
                                   THEN ValueOf(read.value) ELSE NullResponse)
                /\ UNCHANGED aiWaits
    /\ UNCHANGED << tripType, location, aiAttempt, isRetry, data, coordinates,
                    orsError, llmLog, dirLog, weatherLog, orsResponse,
                    env, aborted, pureVars >>

\* lines 468, 519, 525: retryDelay has passed, the loop goes round
AIDelayElapsed ==
    /\ pc = "aiDelay"
    /\ CallLLM(attempt, aiAttempt + 1, isRetry)
    /\ UNCHANGED << tripType, location, attempt, isRetry, waypointsResponse,
                    locations, data, coordinates, orsError, result, response,
                    aiLog, snapLog, dirLog, weatherLog, waits, aiWaits, orsResponse,
                    env, aborted, pureVars >>

\* lines 95-96 going back to the Synthesizer with the waypoints it failed on
DelayElapsedResnaps ==
    /\ pc = "delay"
    /\ IF orsError # << >>
       THEN /\ attempt' = attempt + 1
            /\ locations' = LocationsOf(waypointsResponse.waypoints.items)
            /\ snapLog' = Append(snapLog, [attempt |-> attempt + 1,
                                           profile |-> Profile(tripType),
                                           radius |-> Radius(tripType)])
            /\ pc' = "awaitSnap"
            /\ UNCHANGED << aiAttempt, isRetry, content, waypointsResponse, aiLog,
                            llmLog >>
       ELSE /\ CallProposer(attempt + 1)
            /\ locations' = << >>
            /\ UNCHANGED snapLog
    /\ data' = NoData
    /\ orsError' = << >>
    /\ orsResponse' = NoAnswer
    /\ UNCHANGED << tripType, location, coordinates, result,
                    response, dirLog, weatherLog, waits, aiWaits, env, aborted, pureVars >>

\* lines 95-96 and 111-113: the pause has passed, the next iteration starts;
\* the locals of the synthesis that failed are gone
DelayElapsed ==
    /\ pc = "delay"
    /\ CallProposer(attempt + 1)
    /\ locations' = << >>
    /\ data' = NoData
    /\ orsError' = << >>
    /\ orsResponse' = NoAnswer
    /\ UNCHANGED << tripType, location, coordinates, result,
                    response, snapLog, dirLog, weatherLog, waits, aiWaits, env, aborted, pureVars >>

\* lines 37-44 and 795-816: generateRoute returned route; getWeatherData
\* returns an empty forecast at once when WEATHER_API_KEY is not set, and
\* otherwise requests the forecast
RouteReturned(route) ==
    /\ result' = [kind |-> "route", route |-> route, message |-> << >>,
                  attempt |-> attempt]
    /\ IF env.WEATHER_API_KEY
       THEN /\ weatherLog' = Append(weatherLog, << location.lat.val, location.lng.val >>)
            /\ pc' = "awaitWeather"
            /\ UNCHANGED response
       ELSE /\ response' = [status |-> 200, success |-> TRUE, route |-> route,
                            weather |-> "empty"]
            /\ pc' = "responded"
            /\ UNCHANGED weatherLog

\* lines 185-204: the first directions request, with avoid_features; its
\* body holds coordinates
CallDirections ==
    /\ dirLog' = Append(dirLog, [attempt |-> attempt, avoid |-> TRUE,
                                 profile |-> Profile(tripType)])
    /\ pc' = "awaitDirections"

\* lines 139-204 with the waypoints routed as they are when the snap failed
SnapRespondsRoutesUnsnapped(d) ==
    /\ pc = "awaitSnap"
    /\ data' = d
    /\ LET r == snapWaypoints(locations, d)
       IN  /\ coordinates' = CloseLoop(IF r.ok THEN r.snapped ELSE locations, tripType)
           /\ CallDirections
           /\ UNCHANGED << orsError, result, response, waits >>
    /\ UNCHANGED << tripType, location, attempt, aiAttempt, isRetry,
                    waypointsResponse, locations, aiLog, llmLog, snapLog,
                    weatherLog, content, aiWaits, orsResponse,
                    env, aborted, pureVars >>

\* lines 139-204: the snap service answers d
SnapResponds(d) ==
    /\ pc = "awaitSnap"
    /\ data' = d
    /\ LET r == snapWaypoints(locations, d)
       IN  IF r.ok
           THEN /\ coordinates' = CloseLoop(r.snapped, tripType)
                /\ CallDirections
                /\ UNCHANGED << orsError, result, response, waits >>
           ELSE /\ SynthesisFailed(<< "Snap failed" >>)
                /\ UNCHANGED dirLog
    /\ UNCHANGED << tripType, location, attempt, aiAttempt, isRetry,
                    waypointsResponse, locations, aiLog, llmLog, snapLog,
                    weatherLog, content, aiWaits, orsResponse,
                    env, aborted, pureVars >>

\* lines 225-311 with the test of line 226 left out for a missing list
DirectionsSucceededReadsMissing(r) ==
    IF r.body = "features" /\ Len(r.features) = 0
    THEN /\ SynthesisFailed(<< "No route found" >>)
         /\ UNCHANGED weatherLog
    ELSE IF r.body # "features"
    THEN /\ SynthesisFailed(<< "TypeError: Cannot read properties of undefined" >>)
         /\ UNCHANGED weatherLog
    ELSE /\ RouteReturned(AssembleRoute(r.features[1], tripType))
         /\ UNCHANGED << coordinates, orsError, waits >>

\* lines 225-311: the directions service answered 200 with body r
DirectionsSucceeded(r) ==
    IF r.body # "features" \/ Len(r.features) = 0
    THEN /\ SynthesisFailed(<< "No route found" >>)
         /\ UNCHANGED weatherLog
    ELSE /\ RouteReturned(AssembleRoute(r.features[1], tripType))
         /\ UNCHANGED << coordinates, orsError, waits >>

\* lines 206-209: /Unknown parameter.*(options|avoid_features)/i on the
\* message of a 400
isUnknownParam(r) ==
    /\ r.kind = "error"
    /\ r.status = 400
    /\ r.message \in { "Unknown parameter: options", "Unknown parameter: avoid_features" }

\* lines 198-223 with the request repeated after every 400
DirectionsRespondsRetriesAny400(r) ==
    /\ pc = "awaitDirections"
    /\ orsResponse' = r
    /\ IF r.kind = "error" /\ r.status = 400
       THEN /\ dirLog' = Append(dirLog, [attempt |-> attempt, avoid |-> FALSE,
                                         profile |-> Profile(tripType)])
            /\ pc' = "awaitDirectionsRetry"
            /\ UNCHANGED << coordinates, orsError, result, response, weatherLog, waits >>
       ELSE /\ IF r.kind = "error"
               THEN /\ SynthesisFailed(<< "Request failed" >>)
                    /\ UNCHANGED weatherLog
               ELSE DirectionsSucceeded(r)
            /\ UNCHANGED dirLog
    /\ UNCHANGED << tripType, location, attempt, aiAttempt, isRetry,
                    waypointsResponse, locations, data, aiLog, llmLog, snapLog,
                    content, aiWaits, env, aborted, pureVars >>

\* lines 198-223: the first directions request ends with r
DirectionsResponds(r) ==
    /\ pc = "awaitDirections"
    /\ orsResponse' = r
    /\ IF isUnknownParam(r)
       THEN /\ dirLog' = Append(dirLog, [attempt |-> attempt, avoid |-> FALSE,
                                         profile |-> Profile(tripType)])
            /\ pc' = "awaitDirectionsRetry"
            /\ UNCHANGED << coordinates, orsError, result, response, weatherLog, waits >>
       ELSE /\ IF r.kind = "error"
               THEN /\ SynthesisFailed(<< "Request failed" >>)
                    /\ UNCHANGED weatherLog
               ELSE DirectionsSucceeded(r)
            /\ UNCHANGED dirLog
    /\ UNCHANGED << tripType, location, attempt, aiAttempt, isRetry,
                    waypointsResponse, locations, data, aiLog, llmLog, snapLog,
                    content, aiWaits, env, aborted, pureVars >>

\* lines 213-219: the request without options ends with r; its error is
\* not caught by the inner try
DirectionsRetryResponds(r) ==
    /\ pc = "awaitDirectionsRetry"
    /\ orsResponse' = r
    /\ IF r.kind # "ok"
       THEN /\ SynthesisFailed(<< "Request failed" >>)
            /\ UNCHANGED weatherLog
       ELSE DirectionsSucceeded(r)
    /\ UNCHANGED << tripType, location, attempt, aiAttempt, isRetry,
                    waypointsResponse, locations, data, aiLog, llmLog, snapLog,
                    dirLog, content, aiWaits, env, aborted, pureVars >>

\* lines 805-884 and 41-48 with the error of the forecast request reaching
\* the catch of planTrip
WeatherRespondsFailsOnError(w) ==
    /\ pc = "awaitWeather"
    /\ response' = IF w = "error"
                   THEN [status |-> 500, success |-> FALSE, route |-> NoRoute,
                         weather |-> "none"]
                   ELSE [status |-> 200, success |-> TRUE, route |-> result.route,
                         weather |-> IF w = "list" THEN "forecast" ELSE "empty"]
    /\ pc' = "responded"
    /\ UNCHANGED << tripType, location, attempt, aiAttempt, isRetry,
                    waypointsResponse, locations, data, coordinates, orsError,
                    result, aiLog, llmLog, snapLog, dirLog, weatherLog, waits,
                    content, aiWaits, orsResponse,
                    env, aborted, pureVars >>

\* lines 805-884 and 41-44: the forecast request ends with w
WeatherResponds(w) ==
    /\ pc = "awaitWeather"
    /\ response' = [status |-> 200, success |-> TRUE, route |-> result.route,
                    weather |-> IF w = "list" THEN "forecast" ELSE "empty"]
    /\ pc' = "responded"
    /\ UNCHANGED << tripType, location, attempt, aiAttempt, isRetry,
                    waypointsResponse, locations, data, coordinates, orsError,
                    result, aiLog, llmLog, snapLog, dirLog, weatherLog, waits,
                    content, aiWaits, orsResponse,
                    env, aborted, pureVars >>

----------------------------------------------------------------------------
(* Lines 230-311 applied to directions features of any shape.              *)

\* the longest geometry
MaxVertices == 5

\* the vertices of a geometry, [lon, lat] in millidegrees
Vertices == { << 2173 + v[1], 41385 + v[2] >> :
                v \in { << 0, 0 >>, << 1, 0 >>, << 1, 2 >> } }

\* the features without vertices yet: the summary distance is missing (0),
\* shorter than any path of the pool, or longer than all of them, and the
\* duration and the climbs are missing (0) or not
Summaries ==
    { [Feature(<< >>) EXCEPT !.summary.distance = dist,
                             !.summary.duration = rest[1],
                             !.ascent = rest[2], !.descent = rest[3]] :
        dist \in { 0, 100, 8000 },
        rest \in { << 10800, 300, 250 >>, << 0, 0, 0 >> } }

RouteInit ==
    /\ rTripType \in { "hiking", "cycling" }
    /\ rFeature \in Summaries
    /\ rSplitIdx = SplitIdx(rFeature.geometry, rFeature.summary.distance)
    /\ rRoute = AssembleRoute(rFeature, rTripType)

PushVertex(v) ==
    /\ Len(rFeature.geometry) < MaxVertices
    /\ rFeature' = [rFeature EXCEPT !.geometry = Append(@, v)]
    /\ rSplitIdx' = SplitIdx(rFeature'.geometry, rFeature'.summary.distance)
    /\ rRoute' = AssembleRoute(rFeature', rTripType)
    /\ UNCHANGED rTripType

RouteNext == \E v \in Vertices : PushVertex(v)

RouteIdle ==
    /\ rTripType = "hiking"
    /\ rFeature = Feature(<< >>)
    /\ rSplitIdx = SplitIdx(rFeature.geometry, rFeature.summary.distance)
    /\ rRoute = AssembleRoute(rFeature, rTripType)

----------------------------------------------------------------------------
(* generateRoute (lines 71-117) run by several requests at once.  Node     *)
(* runs one handler at a time and switches between requests at an await;   *)
(* attempt, waypointsResponse and the route are bindings of the invocation *)
(* (lines 73, 77, 89), and the module holds nothing that a request writes: *)
(* groq (line 7) and process.env are only read.  A request is suspended at *)
(* the Proposer (line 77), at the Synthesizer (line 89) or at a pause      *)
(* (lines 95, 111); each of the two services stands for all the calls it   *)
(* makes for one invocation.                                               *)

\* the requests in flight
Requests == { "r1", "r2" }

Pending == [kind |-> "none", waypoints |-> << >>, message |-> << >>]
\* line 90: the route the Synthesizer built over the waypoints it was given
Returned(w) == [kind |-> "route", waypoints |-> w.waypoints.items, message |-> << >>]
\* lines 98 and 116
Thrown(message) == [kind |-> "error", waypoints |-> << >>, message |-> message]

ConcIdle ==
    /\ reqPc = [r \in Requests |-> "request"]
    /\ reqAttempt = [r \in Requests |-> 0]
    /\ reqWaypoints = [r \in Requests |-> NullResponse]
    /\ reqResponses = [r \in Requests |-> << >>]
    /\ reqResult = [r \in Requests |-> Pending]

\* line 73 with attempt declared once for the module instead of per call
NextAttemptShared(r) ==
    1 + CHOOSE m \in 0..maxRetries :
            /\ \E q \in Requests : reqAttempt[q] = m
            /\ \A q \in Requests : reqAttempt[q] <= m

\* line 73: attempt++ on the counter of the invocation
NextAttempt(r) == reqAttempt[r] + 1

\* lines 38 and 73-77: the request enters generateRoute and calls the Proposer
Enter(r) ==
    /\ reqPc[r] = "request"
    /\ reqAttempt' = [reqAttempt EXCEPT ![r] = 1]
    /\ reqPc' = [reqPc EXCEPT ![r] = "awaitProposer"]
    /\ UNCHANGED << reqWaypoints, reqResponses, reqResult >>

\* lines 94-99 and 110-116: the attempt failed; pause while attempts remain,
\* throw otherwise
AttemptFailed(r, message) ==
    IF reqAttempt[r] < maxRetries
    THEN /\ reqPc' = [reqPc EXCEPT ![r] = "delay"]
         /\ UNCHANGED reqResult
    ELSE /\ reqPc' = [reqPc EXCEPT ![r] = "done"]
         /\ reqResult' = [reqResult EXCEPT ![r] = Thrown(message)]

\* lines 77-89 and 104-116: the Proposer answers request r with w
ProposerAnswers(r, w) ==
    /\ reqPc[r] = "awaitProposer"
    /\ reqResponses' = [reqResponses EXCEPT ![r] = Append(@, [service |-> "Proposer", proposal |-> w, ok |-> TRUE])]
    /\ reqWaypoints' = [reqWaypoints EXCEPT ![r] = w]
    /\ IF Passes(w) = "true"
       THEN /\ reqPc' = [reqPc EXCEPT ![r] = "awaitSynthesizer"]
            /\ UNCHANGED reqResult
       ELSE AttemptFailed(r, << "AI failed to generate realistic waypoints after multiple attempts." >>)
    /\ UNCHANGED reqAttempt

\* lines 89-100: the Synthesizer answers request r
SynthesizerAnswers(r, ok) ==
    /\ reqPc[r] = "awaitSynthesizer"
    /\ reqResponses' = [reqResponses EXCEPT ![r] =
                           Append(@, [service |-> "Synthesizer",
                                      proposal |-> NullResponse, ok |-> ok])]
    /\ IF ok
       THEN /\ reqPc' = [reqPc EXCEPT ![r] = "done"]
            /\ reqResult' = [reqResult EXCEPT ![r] = Returned(reqWaypoints[r])]
       ELSE AttemptFailed(r, << "Failed to generate route" >>)
    /\ UNCHANGED << reqAttempt, reqWaypoints >>

\* lines 95-96, 111-113 and 73-77: the pause of request r has passed; the
\* next iteration has a fresh waypointsResponse and calls the Proposer
PauseElapsed(r) ==
    /\ reqPc[r] = "delay"
    /\ reqAttempt' = [reqAttempt EXCEPT ![r] = NextAttempt(r)]
    /\ reqWaypoints' = [reqWaypoints EXCEPT ![r] = NullResponse]
    /\ reqPc' = [reqPc EXCEPT ![r] = "awaitProposer"]
    /\ UNCHANGED << reqResponses, reqResult >>

ConcNext ==
    /\ UNCHANGED << orchVars, geomVars, parseVars, routeVars, storeVars >>
    /\ \E r \in Requests :
           \/ Enter(r)
           \/ \E w \in { NullResponse, RouteData(ArrayOf(Zigzag)), RouteData(ArrayOf(Loop)) } :
                 ProposerAnswers(r, w)
           \/ \E ok \in BOOLEAN : SynthesizerAnswers(r, ok)
           \/ PauseElapsed(r)

----------------------------------------------------------------------------
(* The route API, routeController.js 10-170, over the Route collection of  *)
(* models/Route.js.  A handler runs from its request to its answer as one  *)
(* step.  The content of a field is a number: 1 is what createRoute was    *)
(* given, 2 what an update carries, 0 stands for undefined; tripType has   *)
(* its two values.  A timestamp is counted in saves that wrote the         *)
(* document: createdAt is 0 and updatedAt is the number of writes since.   *)
(* Bodies carry values the schema accepts.                                 *)

\* req.user.id of the callers
Users == { "A", "B" }

\* the _id values the collection can hand out
RouteIds == { "id1", "id2" }

\* the fields updateRoute reads from the body (lines 116-126)
BodyFields == { "name", "description", "tripType", "location", "routeData",
                "weather", "image", "tags", "notes" }

\* req.body of an update, as the set of its keys; every key comes with new
\* content.  A body may hold keys the handler does not read.
Bodies ==
    { {},
      { "name" },
      { "routeData" },
      { "location", "routeData" },
      BodyFields \cup { "user", "status", "rating" } }

\* lines 80 and 140: normalizeRouteData(routeData, location).routeData, kept
\* as the pair of its arguments
normalizeRouteData(rd, loc) == << rd, loc >>

\* lines 82-93 with the defaults and timestamps of Route.js 107-133
Created(u) ==
    [user |-> u, name |-> 1, description |-> 1, tripType |-> "hiking",
     location |-> 1, routeData |-> normalizeRouteData(1, 1), weather |-> 1,
     image |-> 1, tags |-> 1, notes |-> 1,
     status |-> "planned", rating |-> 0, createdAt |-> 0, updatedAt |-> 0]

\* what an answer is about: the handler, the caller, the id asked for, the
\* keys of the body, the status, and the ids of the routes the answer holds
Reply(op, u, id, body, status, sent) ==
    [op |-> op, user |-> u, id |-> id, body |-> body, status |-> status, sent |-> sent]

StoreIdle ==
    /\ routes = [i \in {} |-> Created("A")]
    /\ used = {}
    /\ reply = Reply("none", "A", "none", {}, 0, {})

\* Route.find({ user }): the ids of the routes of u (line 15)
RoutesOf(u) == { i \in DOMAIN routes : routes[i].user = u }

\* lines 10-39 with the default page and limit and no tripType filter
getRoutes(u) ==
    /\ reply' = Reply("getRoutes", u, "none", {}, 200, RoutesOf(u))
    /\ UNCHANGED << routes, used >>

\* lines 44-57
getRoute(u, id) ==
    /\ reply' = IF id \notin DOMAIN routes THEN Reply("getRoute", u, id, {}, 404, {})
                ELSE IF routes[id].user # u THEN Reply("getRoute", u, id, {}, 403, {})
                ELSE Reply("getRoute", u, id, {}, 200, { id })
    /\ UNCHANGED << routes, used >>

\* lines 62-100: valid is validationResult(req).isEmpty(), id the _id the
\* collection gives the new document
createRoute(u, id, valid) ==
    /\ id \notin used
    /\ IF ~valid
       THEN /\ reply' = Reply("createRoute", u, "none", BodyFields, 400, {})
            /\ UNCHANGED << routes, used >>
       ELSE /\ routes' = [i \in DOMAIN routes \cup { id } |->
                            IF i = id THEN Created(u) ELSE routes[i]]
            /\ used' = used \cup { id }
            /\ reply' = Reply("createRoute", u, id, BodyFields, 201, { id })

\* lines 116-142 with every field assigned whether the body has it or not
AssignedUntested(route, body) ==
    LET val(f) == IF f \in body THEN 2 ELSE 0
    IN  [route EXCEPT
           !.name = val("name"), !.description = val("description"),
           !.tripType = IF "tripType" \in body THEN "cycling" ELSE "undefined",
           !.weather = val("weather"), !.image = val("image"),
           !.tags = val("tags"), !.notes = val("notes"),
           !.location = val("location"),
           !.routeData = normalizeRouteData(val("routeData"), val("location"))]

\* lines 116-142: the document after the assignments of updateRoute
Assigned(route, body) ==
    LET nextLocation == IF "location" \in body THEN 2 ELSE route.location
    IN  [route EXCEPT
           !.name = IF "name" \in body THEN 2 ELSE @,
           !.description = IF "description" \in body THEN 2 ELSE @,
           !.tripType = IF "tripType" \in body THEN "cycling" ELSE @,
           !.weather = IF "weather" \in body THEN 2 ELSE @,
           !.image = IF "image" \in body THEN 2 ELSE @,
           !.tags = IF "tags" \in body THEN 2 ELSE @,
           !.notes = IF "notes" \in body THEN 2 ELSE @,
           !.location = nextLocation,
           !.routeData = IF "routeData" \in body
                         THEN normalizeRouteData(2, nextLocation) ELSE @]

\* line 144: route.save() with timestamps (Route.js 131-133); a document
\* with no modified path is not written
Saved(old, new) ==
    IF new = old THEN old ELSE [new EXCEPT !.updatedAt = old.updatedAt + 1]

\* lines 105-151 without the test of line 112
updateRouteOfAnyone(u, id, body) ==
    /\ IF id \notin DOMAIN routes
       THEN /\ reply' = Reply("updateRoute", u, id, body, 404, {})
            /\ UNCHANGED routes
       ELSE /\ routes' = [routes EXCEPT ![id] = Saved(@, Assigned(@, body))]
            /\ reply' = Reply("updateRoute", u, id, body, 200, { id })
    /\ UNCHANGED used

\* lines 105-151
updateRoute(u, id, body) ==
    /\ IF id \notin DOMAIN routes
       THEN /\ reply' = Reply("updateRoute", u, id, body, 404, {})
            /\ UNCHANGED routes
       ELSE IF routes[id].user # u
       THEN /\ reply' = Reply("updateRoute", u, id, body, 403, {})
            /\ UNCHANGED routes
       ELSE /\ routes' = [routes EXCEPT ![id] = Saved(@, Assigned(@, body))]
            /\ reply' = Reply("updateRoute", u, id, body, 200, { id })
    /\ UNCHANGED used

\* lines 156-170: "not-an-id" is an id that ObjectId.isValid refuses, and
\* findOneAndDelete({ _id: id, user }) finds the document only for its owner
deleteRoute(u, id) ==
    /\ IF id = "not-an-id"
       THEN /\ reply' = Reply("deleteRoute", u, id, {}, 400, {})
            /\ UNCHANGED routes
       ELSE IF id \notin RoutesOf(u)
       THEN /\ reply' = Reply("deleteRoute", u, id, {}, 404, {})
            /\ UNCHANGED routes
       ELSE /\ routes' = [i \in DOMAIN routes \ { id } |-> routes[i]]
            /\ reply' = Reply("deleteRoute", u, id, {}, 200, {})
    /\ UNCHANGED used

StoreNext ==
    /\ UNCHANGED << orchVars, geomVars, parseVars, routeVars, concVars >>
    /\ \E u \in Users :
           \/ getRoutes(u)
           \/ \E id \in RouteIds : getRoute(u, id)
           \/ \E id \in RouteIds, valid \in BOOLEAN : createRoute(u, id, valid)
           \/ \E id \in RouteIds, body \in Bodies : updateRoute(u, id, body)
           \/ \E id \in RouteIds \cup { "not-an-id" } : deleteRoute(u, id)

----------------------------------------------------------------------------
(* The specifications.                                                     *)

OrchIdle ==
    /\ aborted = FALSE
    /\ pc = "request"
    /\ attempt = 0
    /\ aiAttempt = 0
    /\ isRetry = FALSE
    /\ content = NoContent
    /\ waypointsResponse = NullResponse
    /\ locations = << >>
    /\ data = NoData
    /\ coordinates = << >>
    /\ orsError = << >>
    /\ orsResponse = NoAnswer
    /\ result = NoResult
    /\ response = NoResponse
    /\ aiLog = << >>
    /\ llmLog = << >>
    /\ snapLog = << >>
    /\ dirLog = << >>
    /\ weatherLog = << >>
    /\ waits = 0
    /\ aiWaits = 0

GeomIdle ==
    /\ gBase = [lat |-> 41385, lng |-> 2173]
    /\ gWaypoints = ArrayOf(<< >>)
    /\ gValid = "false"
    /\ gStraight = "false"

\* one planning request
Init ==
    /\ env = AllKeysSet
    /\ tripType \in { "hiking", "cycling" }
    /\ location \in Locations
    /\ OrchIdle
    /\ GeomIdle
    /\ ParseInit
    /\ RouteIdle
    /\ ConcIdle
    /\ StoreIdle

Next ==
    \/ planTrip
    \/ \E o \in LLMOutcomes : LLMResponds(o)
    \/ AIDelayElapsed
    \/ DelayElapsed
    \/ pc = "awaitSnap" /\
         \E d \in SnapAnswersWith(env.OPENROUTESERVICE_API_KEY, locations) : SnapResponds(d)
    \/ pc = "awaitDirections" /\
         \E r \in DirectionsAnswers(coordinates) : DirectionsResponds(r)
    \/ pc = "awaitDirectionsRetry" /\
         \E r \in DirectionsAnswers(coordinates) : DirectionsRetryResponds(r)
    \/ \E w \in WeatherAnswers : WeatherResponds(w)

Spec == Init /\ [][Next]_vars

\* every external call returns or fails, and every timer fires
FairSpec == Spec /\ WF_vars(Next)

\* one hiking request to a process started with any of the keys missing
ConfigInit ==
    /\ env \in Envs
    /\ tripType = "hiking"
    /\ location \in Locations
    /\ OrchIdle
    /\ GeomIdle
    /\ ParseInit
    /\ RouteIdle
    /\ ConcIdle
    /\ StoreIdle

ConfigSpec == ConfigInit /\ [][Next]_vars

\* routes/trip.js line 15: the values isIn accepts for req.body.tripType
TripTypes == { "hiking", "cycling" }

\* one request whose tripType is outside TripTypes.  The chains of
\* planTripValidation record what they find on the request and pass it on;
\* planTrip never reads validationResult, so the request enters at line 12
\* like any other, and every test of tripType in the controller is
\* === 'cycling', which sends any other value down the branch of hiking
AnyBodyInit ==
    /\ env = AllKeysSet
    /\ tripType = "running"
    /\ location \in Locations
    /\ OrchIdle
    /\ GeomIdle
    /\ ParseInit
    /\ RouteIdle
    /\ ConcIdle
    /\ StoreIdle

AnyBodySpec == AnyBodyInit /\ [][Next]_vars

\* the client closes the connection while the request is suspended at an
\* await; planTrip registers no listener on req and hands no signal to any
\* call, so nothing in the request changes
Abort ==
    /\ ~aborted
    /\ pc \notin { "request", "responded" }
    /\ aborted' = TRUE
    /\ UNCHANGED << env, tripType, location, pc, attempt, aiAttempt, isRetry, content,
                    waypointsResponse, locations, data, coordinates, orsError,
                    orsResponse, result, response,
                    aiLog, llmLog, snapLog, dirLog, weatherLog, waits, aiWaits,
                    pureVars >>

AbortNext == Next \/ Abort

\* one hiking request that the client may abort
AbortInit ==
    /\ env = AllKeysSet
    /\ tripType = "hiking"
    /\ location \in Locations
    /\ OrchIdle
    /\ GeomIdle
    /\ ParseInit
    /\ RouteIdle
    /\ ConcIdle
    /\ StoreIdle

AbortSpec == AbortInit /\ [][AbortNext]_vars

\* the requests of Requests, interleaved at their awaits in every order
ConcSpecInit ==
    /\ ConcIdle
    /\ StoreIdle
    /\ RouteIdle
    /\ env = AllKeysSet
    /\ tripType = "hiking"
    /\ location = [kind |-> "undefined", parses |-> FALSE, lat |-> Num(0), lng |-> Num(0)]
    /\ OrchIdle
    /\ GeomIdle
    /\ ParseInit

ConcSpec == ConcSpecInit /\ [][ConcNext]_vars

\* any sequence of requests of the users to the route API
StoreSpecInit ==
    /\ StoreIdle
    /\ RouteIdle
    /\ env = AllKeysSet
    /\ tripType = "hiking"
    /\ location = [kind |-> "undefined", parses |-> FALSE, lat |-> Num(0), lng |-> Num(0)]
    /\ OrchIdle
    /\ GeomIdle
    /\ ParseInit
    /\ ConcIdle

StoreSpec == StoreSpecInit /\ [][StoreNext]_vars

\* isWaypointsValid and isStraightLine on every array of the pool
GeomSpecInit ==
    /\ GeomInit
    /\ ParseInit
    /\ RouteIdle
    /\ ConcIdle
    /\ StoreIdle
    /\ env = AllKeysSet
    /\ tripType = "hiking"
    /\ location = [kind |-> "undefined", parses |-> FALSE, lat |-> Num(0), lng |-> Num(0)]
    /\ OrchIdle

GeomSpecNext == GeomNext /\ UNCHANGED << orchVars, parseVars, routeVars, concVars, storeVars >>

GeomSpec == GeomSpecInit /\ [][GeomSpecNext]_vars

\* the parse stages on every text of up to MaxTokens tokens
ParseSpecInit ==
    /\ ParseInit
    /\ RouteIdle
    /\ ConcIdle
    /\ StoreIdle
    /\ env = AllKeysSet
    /\ tripType = "hiking"
    /\ location = [kind |-> "undefined", parses |-> FALSE, lat |-> Num(0), lng |-> Num(0)]
    /\ OrchIdle
    /\ GeomIdle

ParseSpecNext == ParseNext /\ UNCHANGED << orchVars, geomVars, routeVars, concVars, storeVars >>

ParseSpec == ParseSpecInit /\ [][ParseSpecNext]_vars

\* the route object of every feature of up to MaxVertices vertices
RouteSpecInit ==
    /\ RouteInit
    /\ ConcIdle
    /\ StoreIdle
    /\ env = AllKeysSet
    /\ tripType = "hiking"
    /\ location = [kind |-> "undefined", parses |-> FALSE, lat |-> Num(0), lng |-> Num(0)]
    /\ OrchIdle
    /\ GeomIdle
    /\ ParseInit

RouteSpecNext == RouteNext /\ UNCHANGED << orchVars, geomVars, parseVars, concVars, storeVars >>

RouteSpec == RouteSpecInit /\ [][RouteSpecNext]_vars

----------------------------------------------------------------------------
(* Properties of the Orchestrator (generateRoute, planTrip).               *)

\* the text between the first opening and the last closing brace, braces
\* included; no text when there is no such pair
FirstToLastBrace(text) ==
    { SubSeq(text, i, j) : <<i, j>> \in
        { ij \in (1..Len(text)) \X (1..Len(text)) :
            /\ ij[1] <= ij[2]
            /\ HasOpen(text[ij[1]]) /\ \A k \in 1..(ij[1] - 1) : ~HasOpen(text[k])
            /\ HasClose(text[ij[2]]) /\ \A k \in (ij[2] + 1)..Len(text) : ~HasClose(text[k])
            /\ text[ij[1]] = "{" /\ text[ij[2]] = "}" } }

\* the text without its fence markers
RECURSIVE Unfenced(_)
Unfenced(text) ==
    IF text = << >> THEN << >>
    ELSE IF Head(text) = "fence" THEN Unfenced(Tail(text))
    ELSE << Head(text) >> \o Unfenced(Tail(text))

\* an unfenced text without its trailing commas (the commas that a closing
\* brace follows), from the front
RECURSIVE Untrailed(_)
Untrailed(text) ==
    IF text = << >> THEN << >>
    ELSE IF Head(text) = "," /\ Len(text) > 1 /\ text[2] = "}" THEN Untrailed(Tail(text))
    ELSE << (IF Head(text) = "Quoted" THEN "Mangled" ELSE Head(text)) >>
            \o Untrailed(Tail(text))

Cleaned(text) == Untrailed(Unfenced(text))


Last(seq) == seq[Len(seq)]

\* no Proposer call so far gave waypoints that passed line 79
NoProposalPassed == \A k \in 1..Len(aiLog) : aiLog[k].passes # "true"

\* C1: if every Proposer result is null or fails isWaypointsValid,
\* generateRoute invokes the Proposer exactly 3 times, never invokes the
\* Synthesizer, and then throws: never more than 3 invocations on the way,
\* and exactly 3 when it ends.
C1_ExactlyThreeAttempts ==
    NoProposalPassed =>
        /\ Len(aiLog) <= 3
        /\ snapLog = << >> /\ dirLog = << >>
        /\ result.kind = "error" => Len(aiLog) = 3

\* the snap service answered, with one non-null entry per location
SnapAnswerComplete ==
    /\ data.kind = "ok"
    /\ Len(data.locations) = Len(locations)
    /\ \A i \in 1..Len(data.locations) : ~data.locations[i].isNull

\* C2: a route is returned by generateRoute, and carried by a success
\* response of planTrip, only as the output of a Synthesizer call that
\* completed on waypoints that passed isWaypointsValid in the same attempt;
\* in every other case the caller gets a failure and no route data.
C2_OnlyValidatedSynthesizedRoutes ==
    /\ response.success =>
          response.status = 200 /\ result.kind = "route" /\ response.route = result.route
    /\ ~response.success => response.route = NoRoute
    /\ pc = "responded" => response.status \in { 200, 400, 500 }
    /\ result.kind # "route" => result.route = NoRoute
    /\ result.kind = "route" =>
          /\ result.attempt = attempt
          /\ Last(aiLog).attempt = attempt
          /\ ~waypointsResponse.isNull
          /\ isWaypointsValid(waypointsResponse.waypoints) = "true"
          /\ Last(snapLog).attempt = attempt
          /\ locations = LocationsOf(waypointsResponse.waypoints.items)
          /\ SnapAnswerComplete
          /\ Last(dirLog).attempt = attempt
          /\ Len(result.route.dailyRoutes) = (IF tripType = "cycling" THEN 2 ELSE 1)
          /\ Len(result.route.points) = Len(result.route.geometry)

\* a route returned by the second attempt, answered with success
C2_Witness ==
    /\ response.success
    /\ result.kind = "route"
    /\ result.attempt = 2

Terminal == result.kind \in { "route", "error" }

\* C3: when every external call returns or fails, every planning request
\* that enters generateRoute reaches exactly one terminal state, Done (a
\* route) or Failed (an error), after at most 3 outer attempts, and once
\* terminal it makes no further LLM, snap or directions call.
C3_TerminatesOnce ==
    /\ <>(pc = "responded")
    /\ [](pc = "responded" /\ response.status # 400 => Terminal)
    /\ [](Len(aiLog) <= 3 /\ attempt <= 4)
    /\ [][Terminal => UNCHANGED << result, aiLog, llmLog, snapLog, dirLog >>]_vars

\* Failed after three attempts of which the last reached the directions service
C3_Witness ==
    /\ result.kind = "error"
    /\ Len(aiLog) = 3
    /\ Len(dirLog) > 0 /\ Last(dirLog).attempt = 3

\* the numeric points of an array lie on one line (any order)
OnOneLine(items) ==
    \A i \in 1..Len(items) :
        (items[i].lat.val - items[1].lat.val) * (items[2].lng.val - items[1].lng.val)
            = (items[i].lng.val - items[1].lng.val) * (items[2].lat.val - items[1].lat.val)

\* a proposal with a shape error: fewer than 3 points, a coordinate out of
\* range, a near-zero placeholder, or collinear points
ShapeError(items) ==
    \/ Len(items) < 3
    \/ \E i \in 1..Len(items) : items[i].isNull
    \/ \E i \in 1..Len(items) :
          \/ Abs(items[i].lat.val) > 90000
          \/ Abs(items[i].lng.val) > 180000
          \/ Abs(items[i].lat.val) < 500 /\ Abs(items[i].lng.val) < 500
    \/ OnOneLine(items)

\* C4: a Proposer result whose waypoints are too few, out of range,
\* near-zero placeholders or collinear is never passed to the Synthesizer:
\* no snap call is made for it, the attempt fails, and the next Proposer
\* call, if any, is a retry.
C4_ShapeErrorsNeverSynthesized ==
    /\ pc = "awaitSnap" => ~ShapeError(waypointsResponse.waypoints.items)
    /\ \A k \in 2..Len(aiLog) : aiLog[k].isRetry

\* C8: snapWaypoints on N waypoints either returns exactly N non-null
\* snapped coordinates, the i-th being the one the service gave for the i-th
\* location, or fails; after an answer with another count or a null entry
\* no coordinates are held, never a shorter list.
C8_SnapAllOrNothing ==
    data.kind # "none" =>
        IF SnapAnswerComplete
        THEN /\ Last(dirLog).attempt = attempt
             /\ coordinates # << >> =>
                   /\ Len(coordinates) >= Len(locations)
                   /\ \A i \in 1..Len(locations) :
                         coordinates[i] = data.locations[i].location
                   /\ Len(coordinates) > Len(locations) =>
                         /\ tripType = "cycling"
                         /\ Len(coordinates) = Len(locations) + 1
                         /\ Last(coordinates) = coordinates[1]
        ELSE coordinates = << >>

\* a hiking request whose last location was snapped to another point
C8_Witness ==
    /\ pc = "awaitDirections"
    /\ tripType = "hiking"
    /\ SnapAnswerComplete
    /\ Len(coordinates) = Len(locations)
    /\ Last(coordinates) # Last(locations)

\* C9: when the snap step fails for any reason (error, count mismatch, null
\* entry), the Snapper raises the generic "Snap failed", the Synthesizer
\* fails, and the directions service is not called in that attempt.
C9_SnapFailureStopsSynthesis ==
    (data.kind # "none" /\ ~SnapAnswerComplete) =>
        /\ orsError = << "Failed to generate route with OpenRouteService", "Snap failed" >>
        /\ \A k \in 1..Len(dirLog) : dirLog[k].attempt # attempt
        /\ pc \in { "delay", "responded" }
        /\ pc = "delay" => attempt < 3 /\ result.kind = "none"
        /\ pc = "responded" =>
              /\ attempt = 3
              /\ result.kind = "error"
              /\ result.message = << "Failed to generate route" >> \o orsError
              /\ response.status = 500

\* the service could not snap one of the locations, in the second attempt
C9_Witness ==
    /\ data.kind = "ok"
    /\ Len(data.locations) = Len(locations)
    /\ \E i \in 1..Len(data.locations) : data.locations[i].isNull
    /\ attempt = 2
    /\ pc = "delay"

\* C10: snap is called at most once per Synthesizer invocation, and every
\* Synthesizer invocation follows a Proposer call of the same attempt whose
\* output it uses: after a Synthesizer failure the waypoints are proposed
\* again, never snapped again.
C10_FreshWaypointsPerSynthesis ==
    /\ \A i, j \in 1..Len(snapLog) : i < j => snapLog[i].attempt < snapLog[j].attempt
    /\ \A i, j \in 1..Len(aiLog) : i < j => aiLog[i].attempt < aiLog[j].attempt
    /\ \A i \in 1..Len(snapLog) :
          \E k \in 1..Len(aiLog) :
             aiLog[k].attempt = snapLog[i].attempt /\ aiLog[k].passes = "true"
    /\ pc = "awaitSnap" =>
          /\ Last(aiLog).attempt = attempt
          /\ Last(snapLog).attempt = attempt
          /\ locations = LocationsOf(waypointsResponse.waypoints.items)

\* the third attempt snaps after two attempts that failed in the Synthesizer
C10_Witness ==
    /\ pc = "awaitSnap"
    /\ Len(snapLog) = 3
    /\ Len(aiLog) = 3

\* generateRoute threw after three Proposer calls
Exhausted == result.kind = "error" /\ Len(aiLog) = 3

\* why the last attempt failed: the stage's own error for the Synthesizer,
\* and what was wrong with the proposal for the Proposer
LastCause ==
    IF Last(aiLog).passes = "true"
    THEN (IF ~SnapAnswerComplete THEN { "Snap failed" }
          ELSE { "No route found", "Request failed" })
    ELSE IF waypointsResponse.isNull THEN { "proposal is null" }
    ELSE IF waypointsResponse.waypoints.type = "undefined" THEN { "no waypoints" }
    ELSE { "invalid waypoints" }

\* C11 as stated: when all 3 outer attempts fail, the error raised by
\* generateRoute wraps the underlying cause of the last failed attempt,
\* whichever stage that attempt failed in.
C11_ErrorWrapsLastCause ==
    Exhausted =>
        /\ Len(result.message) >= 2
        /\ Last(result.message) \in LastCause

\* C11 amended: when the third attempt fails in the Synthesizer the error
\* wraps the Synthesizer's error, which wraps the cause (snap, no route,
\* request error); when it fails at the proposal (null, no waypoints,
\* invalid) the error is one fixed message that carries no cause, and when
\* validation itself throws the error is that exception.
C11_ErrorWrapsSynthesisCause ==
    Exhausted =>
        IF Last(aiLog).passes = "true"
        THEN /\ Len(result.message) = 3
             /\ result.message[1] = "Failed to generate route"
             /\ result.message[2] = "Failed to generate route with OpenRouteService"
             /\ result.message[3] \in LastCause
             /\ Last(snapLog).attempt = 3
             /\ SnapAnswerComplete => Last(dirLog).attempt = 3
        ELSE IF Last(aiLog).passes = "false"
        THEN result.message =
                << "AI failed to generate realistic waypoints after multiple attempts." >>
        ELSE result.message = << "TypeError: Cannot read properties of null" >>

\* the third attempt failed at the directions service, after two attempts
\* that failed at the proposal
C11_Witness ==
    /\ Exhausted
    /\ Len(snapLog) = 1
    /\ Len(dirLog) > 0
    /\ Last(result.message) = "No route found"

\* C12: the k-th Proposer call of a request is made with isRetry = (k > 1):
\* the first call uses the standard prompt and every later call the retry
\* prompt, in each of its LLM calls, whatever the reason the previous
\* attempt failed.
C12_RetryHintFromSecondCall ==
    /\ \A k \in 1..Len(aiLog) :
          aiLog[k].attempt = k /\ aiLog[k].isRetry = (k > 1)
    /\ \A j \in 1..Len(llmLog) :
          /\ llmLog[j].isRetry = (llmLog[j].attempt > 1)
          /\ llmLog[j].prompt = (IF llmLog[j].attempt > 1 THEN "retry" ELSE "standard")
    /\ pc \in { "awaitLLM", "aiDelay" } => isRetry = (Len(aiLog) > 1)

\* the second call follows a Synthesizer failure, the third a rejected
\* proposal, and the third call is in its second LLM call
C12_Witness ==
    /\ pc = "awaitLLM"
    /\ Len(aiLog) = 3
    /\ aiLog[1].passes = "true"
    /\ aiLog[2].passes = "false"
    /\ aiAttempt = 2
    /\ Last(llmLog).prompt = "retry"

\* the outer attempts that have failed so far
FailedAttempts ==
    IF pc = "delay" \/ result.kind = "error" THEN Len(aiLog)
    ELSE IF aiLog = << >> THEN 0 ELSE Len(aiLog) - 1

\* C13: after a failed outer attempt k the Orchestrator waits one backoff
\* interval and returns to Proposing iff k < 3: one wait per failed attempt
\* below 3, none after attempt 3, and Failed only after attempt 3 has
\* failed, with no further Proposer or Synthesizer call.
C13_BackoffIffAttemptsRemain ==
    /\ waits = (IF FailedAttempts < 3 THEN FailedAttempts ELSE 2)
    /\ pc = "delay" => attempt < 3 /\ result.kind = "none"
    /\ result.kind = "error" =>
          /\ FailedAttempts = 3
          /\ pc = "responded"
          /\ \A k \in 1..Len(snapLog) : snapLog[k].attempt <= 3

\* the LLM calls of the k-th Proposer invocation
CallsOf(k) == { j \in 1..Len(llmLog) : llmLog[j].attempt = k }

\* the last LLM call failed: it threw, gave nothing, or gave a text that
\* is not JSON as a whole, nor between its first { and last }, nor once
\* fences and trailing commas are removed
GenerationFailed ==
    \/ content.kind = "throw"
    \/ /\ content.kind = "text"
       /\ \/ content.text = << >>
          \/ /\ ~JSONparse(content.text).ok
             /\ \A t \in FirstToLastBrace(content.text) : ~JSONparse(t).ok
             /\ ~JSONparse(Cleaned(content.text)).ok

\* C14: one Proposer invocation makes at most 3 LLM calls; it retries after
\* an LLM exception, an empty response or an unparseable response, waiting
\* one fixed delay between attempts, and returns null once the third
\* attempt has failed.
C14_AtMostThreeGenerations ==
    /\ \A k \in 1..Len(aiLog) : Cardinality(CallsOf(k)) \in 1..3
    /\ \A j \in 1..Len(llmLog) :
          llmLog[j].aiAttempt =
             (IF j > 1 /\ llmLog[j - 1].attempt = llmLog[j].attempt
              THEN llmLog[j - 1].aiAttempt + 1 ELSE 1)
    /\ aiWaits = Cardinality({ j \in 1..Len(llmLog) : llmLog[j].aiAttempt > 1 })
                    + (IF pc = "aiDelay" THEN 1 ELSE 0)
    /\ pc = "aiDelay" <=> (GenerationFailed /\ aiAttempt < 3)
    /\ (GenerationFailed /\ aiAttempt >= 3) =>
          /\ aiAttempt = 3
          /\ waypointsResponse.isNull
          /\ Last(aiLog).passes = "false"
          /\ pc \in { "delay", "responded" }

\* the second Proposer invocation gave null after an exception, an empty
\* response and then prose
C14_Witness ==
    /\ pc = "delay"
    /\ attempt = 2
    /\ aiAttempt = 3
    /\ content = [kind |-> "text", text |-> << "prose" >>]
    /\ aiWaits >= 2
    /\ waypointsResponse.isNull

\* the last LLM call gave a text that parses as JSON
GenerationParsed == content.kind = "text" /\ ~GenerationFailed

\* C16: the Orchestrator observes exactly one final outcome per Proposer
\* invocation: a response that parses as JSON ends the invocation at once,
\* with no further LLM call in it, even when its waypoints are missing or
\* invalid, so shape errors never consume the Proposer's inner retries.
C16_ParsedResponseEndsInvocation ==
    /\ \A k \in 1..(Len(aiLog) - 1) : aiLog[k].passes # "pending"
    /\ pc \in { "awaitLLM", "aiDelay" } <=>
          (aiLog # << >> /\ Last(aiLog).passes = "pending")
    /\ GenerationParsed =>
          /\ pc \notin { "awaitLLM", "aiDelay" }
          /\ Last(aiLog).passes # "pending"
          /\ Cardinality(CallsOf(Len(aiLog))) = aiAttempt
          /\ Last(llmLog).attempt = Len(aiLog)
          /\ Last(aiLog).passes = "false" =>
                /\ pc \in { "delay", "responded" }
                /\ Last(snapLog \o << [attempt |-> 0] >>).attempt # Len(aiLog)

\* the first LLM call of the second invocation gave an object without
\* waypoints: the invocation ended after that one call
C16_Witness ==
    /\ pc = "delay"
    /\ Len(aiLog) = 2
    /\ content = [kind |-> "text", text |-> << "{", "}" >>]
    /\ aiAttempt = 1
    /\ Last(aiLog).passes = "false"
    /\ ~waypointsResponse.isNull

\* two [lon, lat] points are more than 100 m apart (83 m and 111 m per
\* millidegree of longitude and latitude)
FartherThan100m(a, b) ==
    (83 * (b[1] - a[1])) * (83 * (b[1] - a[1]))
        + (111 * (b[2] - a[2])) * (111 * (b[2] - a[2])) > 100 * 100

\* what the snap service gave, in order
SnappedLocations == [i \in 1..Len(data.locations) |-> data.locations[i].location]

DaysOf(route) == [d \in 1..Len(route.dailyRoutes) |-> route.dailyRoutes[d].day]

\* C27: the trip type alone fixes the shape of the pipeline.  A cycling
\* request snaps and routes with the cycling profile, snaps within the
\* smaller radius (120 m against 200 m) and, when a route is synthesized,
\* it has exactly the days 1 and 2; a hiking request snaps and routes with
\* the foot-hiking profile, snaps within the larger radius, sends the
\* snapped coordinates to the directions service with no closure point
\* appended, and a synthesized route has exactly the day 1.
C27_TripTypeShapesPipeline ==
    /\ tripType = "cycling" =>
          /\ \A i \in 1..Len(snapLog) :
                snapLog[i].profile = "cycling-regular" /\ snapLog[i].radius = 120
          /\ \A i \in 1..Len(dirLog) : dirLog[i].profile = "cycling-regular"
          /\ result.kind = "route" => DaysOf(result.route) = << 1, 2 >>
    /\ tripType = "hiking" =>
          /\ \A i \in 1..Len(snapLog) :
                snapLog[i].profile = "foot-hiking" /\ snapLog[i].radius = 200
          /\ \A i \in 1..Len(dirLog) : dirLog[i].profile = "foot-hiking"
          /\ pc \in { "awaitDirections", "awaitDirectionsRetry" } =>
                coordinates = SnappedLocations
          /\ result.kind = "route" => DaysOf(result.route) = << 1 >>

\* a cycling route of two days after a snap and a directions request
C27_Witness ==
    /\ tripType = "cycling"
    /\ result.kind = "route"
    /\ DaysOf(result.route) = << 1, 2 >>
    /\ Len(snapLog) >= 1 /\ Len(dirLog) >= 1
    /\ snapLog[1].radius = 120

\* every distance, duration and elevation value of every day is a number
DayValuesDefined(route) ==
    \A d \in 1..Len(route.dailyRoutes) :
        LET day == route.dailyRoutes[d]
        IN  /\ IsNumber(day.distance)
            /\ IsNumber(day.duration)
            /\ IsNumber(day.elevation.gain)
            /\ IsNumber(day.elevation.loss)

\* C28: when the directions service answers with a feature whose geometry
\* has no vertex or one, the synthesis either fails or returns a route in
\* which every distance, duration and elevation value of every day is a
\* defined number, never undefined and never NaN, for cycling and hiking.
C28_DegenerateGeometryHandled ==
    (/\ orsResponse.kind = "ok"
     /\ Len(orsResponse.features) > 0
     /\ Len(orsResponse.features[1].geometry) <= 1
     /\ result.kind = "route")
        => DayValuesDefined(result.route)

\* no LLM, snap, directions or weather call has been made
NoCallMade ==
    /\ llmLog = << >>
    /\ snapLog = << >>
    /\ dirLog = << >>
    /\ weatherLog = << >>

\* C29: when the routing key or the weather key is missing, the planning
\* request fails at once: no LLM, snap, directions or weather call is ever
\* made, no attempt of the retry loop is used, no pause is taken, and the
\* answer is a failure.
C29_MissingKeyFailsFast ==
    (~env.OPENROUTESERVICE_API_KEY \/ ~env.WEATHER_API_KEY) =>
        /\ NoCallMade
        /\ attempt = 0
        /\ waits = 0
        /\ pc = "responded" => ~response.success

\* the external calls made so far
CallLogs == << llmLog, snapLog, dirLog, weatherLog >>

\* C30: once the request is aborted, during a pause or while an external
\* call is in flight, the pipeline starts no further LLM, snap, directions
\* or weather call.
C30_NoCallAfterAbort == [][aborted => CallLogs' = CallLogs]_vars

\* the directions requests of outer attempt a, in order
DirectionsCalls(a) == SelectSeq(dirLog, LAMBDA c : c.attempt = a)

\* the last directions answer is an HTTP 400 whose message says that the
\* parameter options, or avoid_features, is unknown
UnsupportedOption ==
    /\ orsResponse.kind = "error"
    /\ orsResponse.status = 400
    /\ \/ orsResponse.message = "Unknown parameter: options"
       \/ orsResponse.message = "Unknown parameter: avoid_features"

\* the Synthesizer of this attempt has failed on a directions request
DirectionsFailed ==
    /\ pc \in { "delay", "responded" }
    /\ result.kind # "route"
    /\ orsError = << "Failed to generate route with OpenRouteService", "Request failed" >>

\* C18: the Synthesizer calls the directions service first with the
\* avoid-ferries option; it makes a second call, without the option, iff
\* the first failed with HTTP 400 and an unknown-parameter message naming
\* options or avoid_features; any other first-call error, and any error of
\* the second call, fails the synthesis without a further call: at most 2
\* directions calls per synthesis.
C18_AvoidFerriesFallback ==
    /\ \A a \in 1..3 :
          LET avoids == [i \in 1..Len(DirectionsCalls(a)) |-> DirectionsCalls(a)[i].avoid]
          IN  avoids \in { << >>, << TRUE >>, << TRUE, FALSE >> }
    /\ pc = "awaitDirectionsRetry" =>
          /\ UnsupportedOption
          /\ Len(DirectionsCalls(attempt)) = 2
    /\ (orsResponse.kind # "none" /\ Len(DirectionsCalls(attempt)) = 1) =>
          /\ ~UnsupportedOption
          /\ orsResponse.kind = "error" => DirectionsFailed
    /\ (orsResponse.kind = "error" /\ pc # "awaitDirectionsRetry") => DirectionsFailed
    /\ orsResponse.kind # "none" => Len(DirectionsCalls(attempt)) \in 1..2

\* the call without the option failed too, with the same 400
C18_Witness ==
    /\ pc = "delay"
    /\ UnsupportedOption
    /\ Len(DirectionsCalls(attempt)) = 2
    /\ DirectionsFailed

\* C19: if the directions service answers without any path feature
\* (features missing or empty), the Synthesizer fails with a descriptive
\* error and returns no route, and the Orchestrator treats the attempt as
\* failed: it waits and proposes again while attempts remain, and fails the
\* request after the third.
C19_NoFeatureFailsSynthesis ==
    (orsResponse.kind = "ok" /\ (orsResponse.body # "features" \/ orsResponse.features = << >>)) =>
        /\ orsError = << "Failed to generate route with OpenRouteService", "No route found" >>
        /\ result.kind # "route"
        /\ result.route = NoRoute
        /\ coordinates = << >>
        /\ pc \in { "delay", "responded" }
        /\ pc = "delay" <=> attempt < 3
        /\ pc = "responded" =>
              /\ result.kind = "error"
              /\ result.message = << "Failed to generate route" >> \o orsError
              /\ response.status = 500 /\ response.route = NoRoute

\* the service answered the request without the option with a body that
\* has no features, in the third attempt
C19_Witness ==
    /\ orsResponse.kind = "ok"
    /\ orsResponse.body = "noFeatures"
    /\ Len(DirectionsCalls(3)) = 2
    /\ result.kind = "error"

----------------------------------------------------------------------------
(* Properties of isStraightLine and isWaypointsValid, over GeomSpec.       *)

gItems == gWaypoints.items
gNumeric == gWaypoints.type = "array" /\ \A i \in 1..Len(gItems) : ~gItems[i].isNull

\* the step from entry i to entry i + 1
Step(i) == Vec(gItems[i], gItems[i + 1])

\* 3 or more distinct points on one line in traversal order: every step
\* is non-zero and keeps the direction of the step before it
InLineInOrder ==
    /\ gNumeric
    /\ Len(gItems) >= 3
    /\ \A i \in 1..(Len(gItems) - 1) : ~ZeroLen(Step(i))
    /\ \A i \in 2..(Len(gItems) - 1) :
          /\ Step(i - 1).x * Step(i).y = Step(i - 1).y * Step(i).x
          /\ Step(i - 1).x * Step(i).x + Step(i - 1).y * Step(i).y > 0

\* C5: for 3 or more distinct points lying exactly on one line in traversal
\* order, isStraightLine returns true, so isWaypointsValid rejects the set.
C5_LineIsStraight ==
    InLineInOrder => gStraight = "true" /\ gValid = "false"

\* the angle between two non-zero steps exceeds 170 degrees: its cosine is
\* below cos 170, i.e. negative with a square above 0.969846
Over170(v1, v2) ==
    LET dot == v1.x * v2.x + v1.y * v2.y
    IN  /\ dot < 0
        /\ dot * dot * 1000000 >
              969846 * ((v1.x * v1.x + v1.y * v1.y) * (v2.x * v2.x + v2.y * v2.y))

\* the interior entries up to i whose two adjacent steps are non-zero, and
\* those among them with an angle over 170 degrees, counted one by one
RECURSIVE Evaluated(_)
Evaluated(i) ==
    IF i < 2 THEN 0
    ELSE Evaluated(i - 1) +
         (IF ~ZeroLen(Step(i - 1)) /\ ~ZeroLen(Step(i)) THEN 1 ELSE 0)

RECURSIVE Straight(_)
Straight(i) ==
    IF i < 2 THEN 0
    ELSE Straight(i - 1) +
         (IF ~ZeroLen(Step(i - 1)) /\ ~ZeroLen(Step(i)) /\ Over170(Step(i - 1), Step(i))
          THEN 1 ELSE 0)

\* C6: isStraightLine returns true iff at least one interior triple is
\* evaluated and more than 0.7 of the evaluated angles exceed 170 degrees;
\* it returns false for fewer than 3 points, when every triple is
\* degenerate, and for the right-angle zigzag (0,0),(0,1),(1,1),(1,2).
C6_StraightIffOverSeventyPercent ==
    /\ gNumeric =>
          LET n == Len(gItems)
              evaluated == Evaluated(n - 1)
              straight == Straight(n - 1)
          IN  /\ (gStraight = "true") <=>
                    (n >= 3 /\ evaluated > 0 /\ 10 * straight > 7 * evaluated)
              /\ gStraight \in { "true", "false" }
              /\ n < 3 => gStraight = "false"
              /\ evaluated = 0 => gStraight = "false"
    /\ isStraightLine(<< Pt(0, 0), Pt(0, 1000), Pt(1000, 1000), Pt(1000, 2000) >>) = "false"

\* five points, one repeated: of the two evaluated angles both exceed 170
C6_Witness ==
    /\ gNumeric
    /\ Len(gItems) = 5
    /\ Evaluated(4) = 2
    /\ Straight(4) = 2
    /\ gStraight = "true"

\* C7: isWaypointsValid(w) is true iff w is an array of at least 3 points,
\* every point has numeric lat in [-90, 90] and numeric lng in [-180, 180],
\* no point has both |lat| < 0.5 and |lng| < 0.5, and isStraightLine(w) is
\* false.
C7_ValidIff ==
    (gValid = "true") <=>
        /\ gWaypoints.type = "array"
        /\ Len(gItems) >= 3
        /\ \A i \in 1..Len(gItems) :
              /\ ~gItems[i].isNull
              /\ gItems[i].lat.type = "number" /\ gItems[i].lng.type = "number"
              /\ -90000 <= gItems[i].lat.val /\ gItems[i].lat.val <= 90000
              /\ -180000 <= gItems[i].lng.val /\ gItems[i].lng.val <= 180000
              /\ ~(/\ -500 < gItems[i].lat.val /\ gItems[i].lat.val < 500
                   /\ -500 < gItems[i].lng.val /\ gItems[i].lng.val < 500)
        /\ gStraight = "false"

\* a valid array holding a point at latitude 90 exactly and one at
\* longitude 180 exactly
C7_Witness ==
    /\ gValid = "true"
    /\ \E i \in 1..Len(gItems) : gItems[i].lat.val = 90000
    /\ \E i \in 1..Len(gItems) : gItems[i].lng.val = 180000

----------------------------------------------------------------------------
(* Properties of the parse stages of generateRouteWithAI, over ParseSpec.  *)

\* the values the three stages give for the text, stage by stage
StageValues ==
    [stage \in 1..3 |->
        IF stage = 1 THEN { JSONparse(pContent) }
        ELSE IF stage = 2 THEN { JSONparse(t) : t \in FirstToLastBrace(pContent) }
        ELSE { JSONparse(Cleaned(pContent)) }]

Parses(stage) == \E v \in StageValues[stage] : v.ok

\* C15: the Proposer parses a response by trying (a) the whole text as
\* JSON, (b) the substring from the first { to the last }, (c) the text
\* with fence markers and trailing commas removed; it returns the value of
\* the first stage that parses, tries no later stage, and counts the
\* generation attempt as failed only when all three fail.
C15_FirstParsingStageWins ==
    pContent # << >> =>
        /\ pParsed.outcome \in { "parsed", "unparseable" }
        /\ (pParsed.outcome = "unparseable") <=> (\A stage \in 1..3 : ~Parses(stage))
        /\ pParsed.outcome = "parsed" =>
              /\ pParsed.stage \in 1..3
              /\ Parses(pParsed.stage)
              /\ \A earlier \in 1..(pParsed.stage - 1) : ~Parses(earlier)
              /\ [ok |-> TRUE, value |-> pParsed.value] \in StageValues[pParsed.stage]
              /\ pParsed.tried = 1..pParsed.stage
        /\ pParsed.outcome = "unparseable" => pParsed.tried = 1..3

\* a fenced object with a trailing comma: only the third stage parses it
C15_Witness ==
    /\ pContent = << "fence", "{", "Zigzag", ",", "}" >>
    /\ pParsed.outcome = "parsed"
    /\ pParsed.stage = 3
    /\ pParsed.value = "Zigzag"

----------------------------------------------------------------------------
(* Properties of the route object of lines 230-311, over RouteSpec.        *)

\* the points of the two days of a cycling route, one after the other
DayPoints == rRoute.dailyRoutes[1].points \o rRoute.dailyRoutes[2].points

\* C20: for the route object of a cycling trip, every vertex of the returned
\* geometry appears in the points of exactly one day, every point's day is
\* 1 or 2, and the order values are strictly increasing over the points of
\* day 1 followed by the points of day 2.
C20_CyclingDayPartition ==
    rTripType = "cycling" =>
        /\ Len(rRoute.dailyRoutes) = 2
        /\ \A i \in 1..Len(rRoute.geometry) :
              /\ Cardinality({ j \in 1..Len(DayPoints) : DayPoints[j].order = i - 1 }) = 1
              /\ \E j \in 1..Len(DayPoints) :
                    /\ DayPoints[j].order = i - 1
                    /\ << DayPoints[j].lng, DayPoints[j].lat >> = rRoute.geometry[i]
        /\ Len(DayPoints) = Len(rRoute.geometry)
        /\ \A d \in 1..2 : \A j \in 1..Len(rRoute.dailyRoutes[d].points) :
              rRoute.dailyRoutes[d].points[j].day = d
        /\ \A j \in 1..Len(rRoute.points) : rRoute.points[j].day \in { 1, 2 }
        /\ \A j \in 1..(Len(DayPoints) - 1) : DayPoints[j].order < DayPoints[j + 1].order

\* a cycling route of five vertices with points on both days
C20_Witness ==
    /\ rTripType = "cycling"
    /\ Len(rRoute.geometry) = 5
    /\ Len(rRoute.dailyRoutes[1].points) >= 2
    /\ Len(rRoute.dailyRoutes[2].points) >= 2

\* the points of all days of the route, in the order of dailyRoutes
RECURSIVE PointsOfDays(_, _)
PointsOfDays(dailyRoutes, k) ==
    IF k = 0 THEN << >>
    ELSE PointsOfDays(dailyRoutes, k - 1) \o dailyRoutes[k].points

\* p comes before q when ordered by day and then by order
Before(p, q) == p.day < q.day \/ (p.day = q.day /\ p.order < q.order)

\* seq ordered by day and then by order (entries that tie keep their places)
ByDayThenOrder(seq) ==
    LET rank(j) == Cardinality({ k \in 1..Len(seq) :
                        Before(seq[k], seq[j]) \/
                        (~Before(seq[j], seq[k]) /\ k < j) })
    IN  [i \in 1..Len(seq) |-> seq[CHOOSE j \in 1..Len(seq) : rank(j) = i - 1]]

\* C21: for every route object, the points of all its days, ordered by day
\* and then by order, are exactly the vertices of the geometry in the order
\* of the path: as many, with the same coordinates at the same positions.
C21_DayPointsReconstructPath ==
    LET path == ByDayThenOrder(PointsOfDays(rRoute.dailyRoutes, Len(rRoute.dailyRoutes)))
    IN  /\ Len(path) = Len(rRoute.geometry)
        /\ \A i \in 1..Len(path) :
              << path[i].lng, path[i].lat >> = rRoute.geometry[i]

\* a cycling route over three different places, day 2 holding two of its
\* five vertices
C21_Witness ==
    /\ rTripType = "cycling"
    /\ Len(rRoute.geometry) = 5
    /\ Cardinality({ rRoute.geometry[i] : i \in 1..5 }) = 3
    /\ Len(rRoute.dailyRoutes[2].points) = 2

\* x + y = total, all three being numbers
SumIs(x, y, total) ==
    /\ Both(x, y)
    /\ IsNumber(total)
    /\ Q(x.n * y.d + y.n * x.d, x.d * y.d) = total

\* C22: for every cycling route object the two days add up to the total,
\* for distance, for duration, for elevation gain and for elevation loss,
\* whatever the split index, the reported length and the geometric length.
C22_DaysSumToTotals ==
    rTripType = "cycling" =>
        LET day1 == rRoute.dailyRoutes[1]
            day2 == rRoute.dailyRoutes[2]
        IN  /\ SumIs(day1.distance, day2.distance, rRoute.totalDistance)
            /\ SumIs(day1.duration, day2.duration, rRoute.totalDuration)
            /\ SumIs(day1.elevation.gain, day2.elevation.gain, rRoute.totalElevation.gain)
            /\ SumIs(day1.elevation.loss, day2.elevation.loss, rRoute.totalElevation.loss)

\* the 0-based indices of the vertices whose cumulative distance along the
\* path is at least half of the total length
AtLeastHalfWay ==
    LET coords == rFeature.geometry
    IN  { i \in 0..(Len(coords) - 1) :
            2 * CumAt(coords, i + 1) >=
                totalGeomMeters(coords, rFeature.summary.distance) }

\* C23: the split index is the index of the first vertex whose cumulative
\* distance along the path is at least half of the total geometric length,
\* and the midpoint index floor(n / 2) of the n vertices when there is no
\* such vertex.
C23_SplitAtHalfOrMidpoint ==
    rSplitIdx = IF AtLeastHalfWay = {}
                THEN Len(rFeature.geometry) \div 2
                ELSE CHOOSE i \in AtLeastHalfWay : \A j \in AtLeastHalfWay : i <= j

SameShare(part, whole, share, total) ==
    /\ Both(part, whole)
    /\ Both(share, total)
    /\ Times(part, total) = Times(share, whole)

\* C25: for a cycling route object each day's share of the total duration,
\* of the total elevation gain and of the total elevation loss equals that
\* day's share of the total distance.
C25_OneFractionPerDay ==
    rTripType = "cycling" =>
        \A k \in 1..2 :
            LET day == rRoute.dailyRoutes[k]
            IN  /\ SameShare(day.duration, rRoute.totalDuration,
                             day.distance, rRoute.totalDistance)
                /\ SameShare(day.elevation.gain, rRoute.totalElevation.gain,
                             day.distance, rRoute.totalDistance)
                /\ SameShare(day.elevation.loss, rRoute.totalElevation.loss,
                             day.distance, rRoute.totalDistance)

\* the route object of a hiking trip: totals of `metres` / 1000 kilometres,
\* T / 3600 hours and the climbs A and B, and one day, day 1, with the same
\* distance, duration and elevation and with all the vertices in the order
\* of the geometry
HikingRouteOf(metres) ==
    LET total == [distance |-> Q(metres, 1000),
                  duration |-> Q(rFeature.summary.duration, 3600),
                  elevation |-> [gain |-> Q(rFeature.ascent, 1),
                                 loss |-> Q(rFeature.descent, 1)]]
    IN  /\ rRoute.totalDistance = total.distance
        /\ rRoute.totalDuration = total.duration
        /\ rRoute.totalElevation = total.elevation
        /\ Len(rRoute.dailyRoutes) = 1
        /\ rRoute.dailyRoutes[1].day = 1
        /\ rRoute.dailyRoutes[1].distance = total.distance
        /\ rRoute.dailyRoutes[1].duration = total.duration
        /\ rRoute.dailyRoutes[1].elevation = total.elevation
        /\ Len(rRoute.dailyRoutes[1].points) = Len(rFeature.geometry)
        /\ \A i \in 1..Len(rFeature.geometry) :
              LET p == rRoute.dailyRoutes[1].points[i]
              IN  << p.lng, p.lat >> = rFeature.geometry[i] /\ p.day = 1

\* C26: for a hiking trip whose directions feature reports a distance of D
\* metres, a duration of T seconds, ascent A and descent B over n vertices,
\* the route has totalDistance D / 1000, totalDuration T / 3600, elevation
\* {A, B} and one day with the same numbers and all n points in order.
C26_HikingTotalsFromSummary ==
    rTripType = "hiking" => HikingRouteOf(rFeature.summary.distance)

\* C26, amended: as C26 when D is not 0; when D is 0 the distances are the
\* geometric length of the path divided by 1000, and the rest is as in C26.
C26_HikingTotalsFromSummaryOrPath ==
    rTripType = "hiking" =>
        HikingRouteOf(IF rFeature.summary.distance # 0
                      THEN rFeature.summary.distance
                      ELSE CumAt(rFeature.geometry, Len(rFeature.geometry)))

\* the example of C26 on five vertices: 8000 m, 10800 s, 300, 250 give 8
\* kilometres, 3 hours and {300, 250}
C26_Witness ==
    /\ rTripType = "hiking"
    /\ rFeature.summary = [distance |-> 8000, duration |-> 10800]
    /\ rFeature.ascent = 300 /\ rFeature.descent = 250
    /\ Len(rFeature.geometry) = 5
    /\ rRoute.totalDistance = Q(8, 1)
    /\ rRoute.totalDuration = Q(3, 1)
    /\ Len(rRoute.dailyRoutes[1].points) = 5

\* x is a number and is not negative
NonNegative(x) == IsNumber(x) /\ x.n >= 0

\* C35: in every route object every day's distance, duration, elevation gain
\* and elevation loss is a number that is not negative, whatever the
\* reported total distance and the geometric length up to the split vertex.
C35_DailyValuesNonNegative ==
    \A d \in 1..Len(rRoute.dailyRoutes) :
        LET day == rRoute.dailyRoutes[d]
        IN  /\ NonNegative(day.distance)
            /\ NonNegative(day.duration)
            /\ NonNegative(day.elevation.gain)
            /\ NonNegative(day.elevation.loss)

----------------------------------------------------------------------------
(* Properties of the loop closure (lines 170-176).                         *)

\* the snapped sequence with one copy of its first coordinate at the end
\* when the trip is cycling, there is more than one coordinate and the last
\* one is more than 100 m from the first, and the snapped sequence otherwise
ClosedOnlyWhenOpenCycling(snapped, tt) ==
    IF tt = "cycling" /\ Len(snapped) > 1 /\ FartherThan100m(snapped[1], Last(snapped))
    THEN snapped \o << snapped[1] >>
    ELSE snapped

\* C37: the sequence held for the directions requests is the snapped
\* sequence, in order, with one copy of its first coordinate appended exactly
\* when the trip is cycling, there is more than one coordinate and the last
\* is more than 100 m from the first; for hiking, and for an empty or a
\* single-coordinate sequence, the loop closure gives the sequence back.
C37_LoopClosureOnlyAppendsStart ==
    /\ pc \in { "awaitDirections", "awaitDirectionsRetry" } =>
          coordinates = ClosedOnlyWhenOpenCycling(SnappedLocations, tripType)
    /\ \A tt \in { "hiking", "cycling" } :
          /\ CloseLoop(<< >>, tt) = << >>
          /\ \A i \in 1..Len(locations) :
                CloseLoop(<< locations[i] >>, tt) = << locations[i] >>

\* a hiking request whose snapped waypoints end 138 m from the start and
\* are sent to the directions service as they are
C37_Witness ==
    /\ tripType = "hiking"
    /\ pc = "awaitDirections"
    /\ Len(dirLog) > 0
    /\ FartherThan100m(SnappedLocations[1], Last(SnappedLocations))
    /\ coordinates = SnappedLocations
    /\ Len(coordinates) = 3

----------------------------------------------------------------------------
(* Properties of the weather enrichment (planTrip 37-48, getWeatherData).  *)

\* the forecast is asked for at most once, and only when generateRoute has
\* returned a route
WeatherAfterRoute ==
    /\ Len(weatherLog) <= 1
    /\ (weatherLog # << >> \/ pc = "awaitWeather") => result.kind = "route"

\* a request whose route generation succeeded is answered with success, the
\* generated route and a forecast, empty or not; only a failed route
\* generation is answered with 500
RouteAnsweredWithForecast ==
    pc = "responded" =>
        /\ result.kind = "route" =>
              /\ response.status = 200 /\ response.success
              /\ response.route = result.route
              /\ response.weather \in { "forecast", "empty" }
        /\ response.status = 500 => result.kind = "error"

\* the answer of the weather service leaves the result of route generation
\* as it is and the response carries that route
WeatherLeavesRoute ==
    pc = "awaitWeather" =>
        /\ result' = result
        /\ response'.success
        /\ response'.route = result.route

\* C34: the forecast is requested only after route generation has returned
\* a route; the generated route is the same whatever the weather service
\* answers; a weather error, an answer without a list or a missing weather
\* key never fails the request, which is answered with success, the route
\* and a forecast that may be empty.
C34_WeatherIsOpaqueEnrichment ==
    /\ [](WeatherAfterRoute /\ RouteAnsweredWithForecast)
    /\ [][WeatherLeavesRoute]_vars

\* a request answered with its route and an empty forecast by a process
\* that has no weather key, without any call to the weather service
C34_Witness ==
    /\ ~env.WEATHER_API_KEY
    /\ pc = "responded"
    /\ result.kind = "route"
    /\ response.success
    /\ response.route = result.route
    /\ Len(response.route.geometry) > 1
    /\ response.weather = "empty"
    /\ weatherLog = << >>

----------------------------------------------------------------------------
(* Properties of the request handler (planTrip 12-49).                     *)

\* the location of the request is missing, is a string that is not JSON, or
\* has a lat or a lng that is missing or 0
UnusableLocation ==
    \/ location.kind = "undefined"
    \/ ~location.parses
    \/ NotANumber(location.lat)
    \/ NotANumber(location.lng)

\* generateRoute has been entered once: its Proposer invocations are
\* numbered 1, 2, ... without a new start
PipelineRanOnce ==
    /\ aiLog # << >>
    /\ Len(aiLog) <= maxRetries
    /\ \A k \in 1..Len(aiLog) : aiLog[k].attempt = k

\* C39: a request is answered with 400 exactly when its location is
\* missing, is a string that is not JSON or has a lat or lng that is
\* missing or 0, and then no LLM, snap, directions or weather call is made;
\* every other request runs the pipeline once and is answered with success
\* or with 500.
C39_BadLocationMakesNoCall ==
    /\ response.status = 400 => NoCallMade /\ aiLog = << >> /\ pc = "responded"
    /\ pc = "responded" =>
          /\ response.status = 400 <=> UnusableLocation
          /\ response.status # 400 =>
                /\ PipelineRanOnce
                /\ \/ response.status = 200 /\ response.success
                   \/ response.status = 500 /\ ~response.success

\* a request whose location string is not JSON, answered with 400
C39_Witness ==
    /\ location.kind = "string"
    /\ ~location.parses
    /\ pc = "responded"
    /\ response.status = 400
    /\ NoCallMade

\* C32: a request whose tripType is neither "hiking" nor "cycling" is
\* rejected: no Proposer, snap or directions call is made for it and it is
\* not answered with success.
C32_UnknownTripTypeRejected ==
    tripType \notin TripTypes =>
        /\ aiLog = << >>
        /\ llmLog = << >>
        /\ snapLog = << >>
        /\ dirLog = << >>
        /\ pc = "responded" => ~response.success

----------------------------------------------------------------------------
(* Properties of the sequence of external calls of one request.            *)

\* how many calls of a log belong to attempt a
CallsAt(log, a) == Cardinality({ j \in 1..Len(log) : log[j].attempt = a })

\* at most 9 LLM calls, 3 to a Proposer invocation and 3 invocations; at
\* most 3 snap calls, one to an attempt; at most 6 directions calls, two to
\* an attempt
CallsBounded ==
    /\ Len(aiLog) <= 3
    /\ Len(llmLog) <= 9
    /\ Len(snapLog) <= 3
    /\ Len(dirLog) <= 6
    /\ \A a \in 1..3 :
          /\ CallsAt(llmLog, a) <= 3
          /\ CallsAt(snapLog, a) <= 1
          /\ CallsAt(dirLog, a) <= 2
    /\ \A j \in 1..Len(llmLog) : llmLog[j].attempt \in 1..3
    /\ \A j \in 1..Len(snapLog) : snapLog[j].attempt \in 1..3
    /\ \A j \in 1..Len(dirLog) : dirLog[j].attempt \in 1..3

\* an attempt has a snap call only if its proposal passed, and directions
\* calls only if it has a snap call; a pending directions request follows a
\* complete snap answer
StagesNested ==
    /\ \A a \in 1..3 :
          /\ CallsAt(snapLog, a) > 0 => (a <= Len(aiLog) /\ aiLog[a].passes = "true")
          /\ CallsAt(dirLog, a) > 0 => CallsAt(snapLog, a) > 0
    /\ pc \in { "awaitDirections", "awaitDirectionsRetry" } => SnapAnswerComplete

\* a step that calls the snap service follows a Proposer answer that
\* passed; a step that calls the directions service follows a complete snap
\* answer or, for the request without options, the first directions request;
\* a step that calls the LLM makes no other call
StagesInOrder ==
    /\ snapLog' # snapLog =>
          /\ pc = "awaitLLM"
          /\ Last(aiLog').passes = "true"
          /\ llmLog' = llmLog /\ dirLog' = dirLog
    /\ dirLog' # dirLog =>
          /\ \/ pc = "awaitSnap" /\ snapWaypoints(locations, data').ok
             \/ pc = "awaitDirections"
          /\ llmLog' = llmLog /\ snapLog' = snapLog
    /\ llmLog' # llmLog =>
          /\ pc \in { "request", "aiDelay", "delay" }
          /\ snapLog' = snapLog /\ dirLog' = dirLog

\* C36: one request makes at most 9 LLM calls (3 to a Proposer invocation,
\* 3 invocations), at most 3 snap calls and at most 6 directions calls; in
\* every attempt the Proposer is called first, the snap service only after
\* the proposal passed and the directions service only after the snap
\* succeeded.
C36_CallsBoundedAndOrdered ==
    /\ [](CallsBounded /\ StagesNested)
    /\ [][StagesInOrder]_vars

\* a request that used every call it can make: 9 LLM calls, 3 snap calls
\* and 6 directions calls
C36_Witness ==
    /\ Len(llmLog) = 9
    /\ Len(snapLog) = 3
    /\ Len(dirLog) = 6
    /\ pc = "responded"

----------------------------------------------------------------------------
(* Properties of concurrent requests.                                      *)

\* what generateRoute gives when it runs alone and its calls are answered
\* with log, in order, starting in attempt att with the waypoints w: the
\* route over the waypoints of the same attempt, the error of the third
\* failure, or nothing yet
RECURSIVE Alone(_, _, _)
Alone(log, att, w) ==
    IF log = << >> THEN Pending
    ELSE IF Head(log).service = "Proposer"
    THEN IF Passes(Head(log).proposal) = "true"
         THEN Alone(Tail(log), att, Head(log).proposal)
         ELSE IF att < 3 THEN Alone(Tail(log), att + 1, NullResponse)
         ELSE Thrown(<< "AI failed to generate realistic waypoints after multiple attempts." >>)
    ELSE IF Head(log).ok THEN Returned(w)
    ELSE IF att < 3 THEN Alone(Tail(log), att + 1, NullResponse)
    ELSE Thrown(<< "Failed to generate route" >>)

\* the Proposer answers request r has had
ProposerAnswersOf(r) ==
    SelectSeq(reqResponses[r], LAMBDA a : a.service = "Proposer")

\* C31: under every interleaving of the requests each request makes at most
\* 3 attempts, one Proposer call to an attempt; the waypoints it holds are
\* the last ones its own Proposer call gave in this attempt; and what it
\* returns or throws is what it would return or throw running alone with
\* the answers its own calls got.
C31_RequestsIsolated ==
    \A r \in Requests :
        /\ reqAttempt[r] <= 3
        /\ Len(ProposerAnswersOf(r)) =
              (IF reqPc[r] = "awaitProposer" THEN reqAttempt[r] - 1 ELSE reqAttempt[r])
        /\ reqPc[r] = "awaitSynthesizer" =>
              reqWaypoints[r] = Last(ProposerAnswersOf(r)).proposal
        /\ reqResult[r] = Alone(reqResponses[r], 1, NullResponse)
        /\ reqPc[r] = "done" <=> reqResult[r] # Pending

\* r1 waits for the Synthesizer in its third attempt while r2, which entered
\* before r1 finished, has got a route in its first attempt over other
\* waypoints
C31_Witness ==
    /\ reqPc["r1"] = "awaitSynthesizer"
    /\ reqAttempt["r1"] = 3
    /\ reqWaypoints["r1"] = RouteData(ArrayOf(Loop))
    /\ reqPc["r2"] = "done"
    /\ reqAttempt["r2"] = 1
    /\ reqResult["r2"] = Returned(RouteData(ArrayOf(Zigzag)))

----------------------------------------------------------------------------
(* Properties of the route API.                                            *)

\* the step is a request of reply'.user: it leaves every route of another
\* user stored and as it was, answers with routes of the caller only,
\* stores new routes for the caller only, never changes the owner of a
\* route, and answers a request for the route of another user with 403, or
\* with 404 when it is a deleteRoute
OwnRoutesOnly ==
    /\ \A i \in DOMAIN routes :
          routes[i].user # reply'.user => (i \in DOMAIN routes' /\ routes'[i] = routes[i])
    /\ \A i \in DOMAIN routes' :
          routes'[i].user = IF i \in DOMAIN routes THEN routes[i].user ELSE reply'.user
    /\ \A i \in reply'.sent : i \in DOMAIN routes' /\ routes'[i].user = reply'.user
    /\ (reply'.id \in DOMAIN routes /\ routes[reply'.id].user # reply'.user) =>
          /\ reply'.op \in { "getRoute", "updateRoute", "deleteRoute" }
          /\ reply'.status = IF reply'.op = "deleteRoute" THEN 404 ELSE 403
          /\ reply'.sent = {}

\* C33: after any sequence of createRoute, getRoutes, getRoute, updateRoute
\* and deleteRoute requests by several users, no request of one user
\* returns, modifies or deletes a route of another: getRoute and
\* updateRoute answer 403, deleteRoute answers 404 and leaves the route
\* stored, and getRoutes lists the routes of the caller only.
C33_RoutesKeyedByOwner == [][OwnRoutesOnly]_vars

\* B has asked to update a route of A with every field in the body and got
\* 403; the route is as A created it
C33_Witness ==
    /\ reply.op = "updateRoute"
    /\ reply.user = "B"
    /\ reply.status = 403
    /\ reply.body = BodyFields \cup { "user", "status", "rating" }
    /\ reply.id \in DOMAIN routes
    /\ routes[reply.id] = Created("A")

\* the step, when it is an updateRoute, stores nothing on 404 and 403 and
\* otherwise leaves every other route, and in the route asked for the
\* fields of `kept` and the fields of BodyFields that the body lacks, as
\* they were
UpdateKeeps(kept) ==
    reply'.op = "updateRoute" =>
        /\ reply'.status \in { 403, 404 } => routes' = routes
        /\ DOMAIN routes' = DOMAIN routes
        /\ \A i \in DOMAIN routes : i # reply'.id => routes'[i] = routes[i]
        /\ reply'.status = 200 =>
              \A f \in kept \cup (BodyFields \ reply'.body) :
                 routes'[reply'.id][f] = routes[reply'.id][f]

\* C38: updateRoute changes only the fields of name, description, tripType,
\* location, routeData, weather, image, tags and notes that the request
\* body has; every other field of the route, the owning user, status,
\* rating and the timestamps among them, is as before, and on 404 and 403
\* nothing is saved.
C38_UpdateChangesOnlyBodyFields ==
    [][UpdateKeeps({ "user", "status", "rating", "createdAt", "updatedAt" })]_vars

\* C38, amended: as C38, except that updatedAt changes too.
C38_UpdateChangesOnlyBodyFieldsAndUpdatedAt ==
    [][UpdateKeeps({ "user", "status", "rating", "createdAt" })]_vars

\* A has updated a route of theirs with a body that has every field and
\* the keys user, status and rating as well
C38_Witness ==
    /\ reply.op = "updateRoute"
    /\ reply.user = "A"
    /\ reply.status = 200
    /\ reply.body = BodyFields \cup { "user", "status", "rating" }
    /\ routes[reply.id].user = "A"
    /\ routes[reply.id].status = "planned"
    /\ routes[reply.id].rating = 0
    /\ routes[reply.id].name = 2
    /\ routes[reply.id].routeData = normalizeRouteData(2, 2)
    /\ routes[reply.id].updatedAt = 1

====
